---- MODULE Spec2Model ----
(***************************************************************************)
(* The query pipeline of the analytics chat backend: AgentOrchestrator     *)
(* threads one AgentState dict through QueryUnderstandingAgent,            *)
(* DataRetrievalAgent, ResponseGenerationAgent and RecommendationAgent.    *)
(*                                                                         *)
(* Python values are modelled as follows.  A dict is a function whose      *)
(* DOMAIN is the set of keys present.  A str that flows through JSON is a  *)
(* tagged value [t |-> "str", v |-> ...]; a JSON array or object is tagged *)
(* "list" / "obj".  A completion text is a sequence of tokens: the         *)
(* characters the regular expressions look at ("{", "}", "[", "]",         *)
(* newline) are single tokens, a JSON member "key": value is one token.    *)
(*                                                                         *)
(* A second state machine, BulkSpec, covers the bulk operations of         *)
(* CosmosBulkOperations behind the CosmosDBService wrappers, and the       *)
(* deletion tool.                                                          *)
(***************************************************************************)
EXTENDS Integers, Sequences, FiniteSets, TLC

VARIABLES
    pc,            \* position of process_query / of the workflow graph
    args,          \* arguments of process_query
    state,         \* the AgentState dict threaded through the nodes
    cosmos_cfg,    \* which cosmos service object the retrieval agent holds
    rag_enabled,   \* rag_service.vector_store is set
    last_outcome,  \* outcome of the external call the current node awaited
    store_calls,   \* queries issued to the store, in order
    llm_calls,     \* completion requests issued, in order
    trace,         \* node start / return / raise events, in order
    exc,           \* exception propagating out of workflow.ainvoke ("" = none)
    result,        \* value returned by process_query
    bpc,           \* position of the bulk operation / of the deletion tool
    bop,           \* the operation called and its arguments
    tasks,         \* the partition tasks of the operation, in launch order
    batch_calls,   \* calls that reached the store, in order, with their replies
    bexc,          \* exception raised to the operation's caller ("" = none)
    bresult,       \* value the operation returned
    seed,          \* the frame of seed_from_file around a bulk create
    frames,        \* the chat requests in progress, each with its own locals
    stored,        \* the conversations container: conversation id -> messages
    last_writer    \* per conversation, the request whose update came last

pipelineVars == <<pc, args, state, cosmos_cfg, rag_enabled, last_outcome,
                  store_calls, llm_calls, trace, exc, result>>

bulkVars == <<bpc, bop, tasks, batch_calls, bexc, bresult, seed>>

sessionVars == <<frames, stored, last_writer>>

vars == <<pipelineVars, bulkVars, sessionVars>>

---------------------------------------------------------------------------
(* Bounds of the model *)

MaxHistory == 5
MaxEntityDepth == 3
MaxItems == 6

---------------------------------------------------------------------------
(* Python dict and list helpers *)

EmptyDict == [k \in {} |-> ""]

Get(d, k, default) == IF k \in DOMAIN d THEN d[k] ELSE default

Put(d, k, v) == [x \in (DOMAIN d) \cup {k} |-> IF x = k THEN v ELSE d[x]]

Min(S) == CHOOSE x \in S : \A y \in S : x <= y

\* seq[-n:]
LastN(seq, n) == IF Len(seq) <= n THEN seq ELSE SubSeq(seq, Len(seq) - n + 1, Len(seq))

\* seq[:n]
FirstN(seq, n) == IF Len(seq) <= n THEN seq ELSE SubSeq(seq, 1, n)

\* how a node's execute ends: it returns the state, or an exception leaves it
Returned(st) == [raises |-> FALSE, err |-> "", state |-> st]
Raised(err, st) == [raises |-> TRUE, err |-> err, state |-> st]

JStr(s) == [t |-> "str", v |-> s]
JList(s) == [t |-> "list", v |-> s]
JObj(s) == [t |-> "obj", v |-> s]

---------------------------------------------------------------------------
(* Completion texts as token sequences *)

Tok(k, t, v) == [k |-> k, t |-> t, v |-> v]
LB == Tok("{", "sym", "")
RB == Tok("}", "sym", "")
Prose == Tok("prose", "sym", "Here is the analysis")

\* brace depth reached after text[i..j]
Depth(text, i, j) ==
    Cardinality({n \in i..j : text[n].k = "{"}) - Cardinality({n \in i..j : text[n].k = "}"})

\* nesting the pattern \{(?:[^{}]|(?:\{(?:[^{}]|(?:\{[^{}]*\}))*\}))*\} can match
RegexDepth == 3

\* end index of the pattern's match starting at index i, 0 when it does not match there
MatchEnd(text, i) ==
    LET closes == {j \in i..Len(text) : Depth(text, i, j) = 0}
    IN  IF text[i].k # "{" \/ closes = {} THEN 0
        ELSE LET j == Min(closes)
             IN  IF \A n \in i..j : Depth(text, i, n) <= RegexDepth THEN j ELSE 0

\* re.search: the leftmost match, found = FALSE for None
JsonSearch(text) ==
    LET starts == {i \in 1..Len(text) : MatchEnd(text, i) > 0}
    IN  IF starts = {} THEN [found |-> FALSE, from |-> 0, to |-> 0]
        ELSE [found |-> TRUE, from |-> Min(starts), to |-> MatchEnd(text, Min(starts))]

\* json.loads accepts m: one object, every nested object the value of a member
JsonLoadsOk(m) ==
    /\ Len(m) >= 2
    /\ m[1].k = "{"
    /\ Depth(m, 1, Len(m)) = 0
    /\ \A n \in 1..(Len(m) - 1) : Depth(m, 1, n) > 0
    /\ \A n \in 1..Len(m) :
        /\ m[n].k # "prose"
        /\ (m[n].k = "{" /\ n > 1) => m[n - 1].t = "obj"
        /\ m[n].t = "obj" => (n < Len(m) /\ m[n + 1].k = "{")

\* the dict json.loads returns for a well-formed m: its top-level members
JsonLoads(m) ==
    LET top == {n \in 2..(Len(m) - 1) : m[n].t # "sym" /\ Depth(m, 1, n) = 1}
        keys == {m[n].k : n \in top}
        last(k) == CHOOSE n \in top : m[n].k = k /\ \A n2 \in top : m[n2].k = k => n2 <= n
    IN  [k \in keys |-> [t |-> m[last(k)].t, v |-> m[last(k)].v]]

---------------------------------------------------------------------------
(* QueryUnderstandingAgent *)

RequiredKeys == {"intent", "query_type", "entities", "cosmos_query"}

ParseErrorText == "Could not extract structured data from LLM response"

\* the minimal structure _parse_query_analysis falls back to
FallbackAnalysis(response, original_query) ==
    [intent |-> JStr("analyze_data"),
     query_type |-> JStr("analytical"),
     entities |-> JObj("{}"),
     cosmos_query |-> JStr(""),
     query_parameters |-> JList("[]"),
     reformulated_query |-> JStr(original_query),
     raw_analysis |-> response,
     parse_error |-> JStr(ParseErrorText)]

\* faulty variant: the parsed object is returned without the required-key check
ParseQueryAnalysis_NoKeyCheck(response, original_query) ==
    LET found == JsonSearch(response)
        json_str == SubSeq(response, found.from, found.to)
    IN  IF found.found /\ JsonLoadsOk(json_str)
        THEN JsonLoads(json_str)
        ELSE FallbackAnalysis(response, original_query)

\* _parse_query_analysis: first regex match, json.loads, required-key check;
\* a JSONDecodeError and a missing key both end in the fallback
ParseQueryAnalysis(response, original_query) ==
    LET found == JsonSearch(response)
        json_str == SubSeq(response, found.from, found.to)
    IN  IF found.found /\ JsonLoadsOk(json_str)
           /\ RequiredKeys \subseteq DOMAIN JsonLoads(json_str)
        THEN JsonLoads(json_str)
        ELSE FallbackAnalysis(response, original_query)

\* the analysis execute writes when the completion call (or anything in the try) raises
ErrorAnalysis(user_query, err) ==
    [intent |-> JStr("general_query"),
     query_type |-> JStr("informational"),
     entities |-> JObj("{}"),
     cosmos_query |-> JStr(""),
     query_parameters |-> JList("[]"),
     reformulated_query |-> JStr(user_query),
     error |-> JStr(err)]

Capitalize(role) ==
    CASE role = "user" -> "User"
      [] role = "assistant" -> "Assistant"
      [] role = "system" -> "System"
      [] OTHER -> role

\* _build_history_context: the last 3 messages as "Role: content" lines
BuildHistoryContext(history) ==
    [n \in 1..Len(LastN(history, 3)) |->
        [role |-> Capitalize(Get(LastN(history, 3)[n], "role", "user")),
         content |-> Get(LastN(history, 3)[n], "content", "")]]

\* the message list execute sends: optional history context, then the question
UnderstandMessages(st) ==
    LET history_context == BuildHistoryContext(Get(st, "conversation_history", <<>>))
    IN  (IF history_context # <<>>
         THEN <<[role |-> "system", kind |-> "history_context", body |-> history_context]>>
         ELSE <<>>)
        \o <<[role |-> "user", kind |-> "analyze", body |-> Get(st, "user_query", "")]>>

\* faulty variant: the history is cut to the prompt's window in place
UnderstandExecute_TrimsHistory(st, outcome) ==
    LET user_query == Get(st, "user_query", "")
        query_analysis == IF outcome.raises
                          THEN ErrorAnalysis(user_query, outcome.err)
                          ELSE ParseQueryAnalysis(outcome.text, user_query)
        s0 == Put(st, "conversation_history",
                  LastN(Get(st, "conversation_history", <<>>), 3))
        s1 == Put(s0, "query_analysis", query_analysis)
        s2 == Put(s1, "reformulated_query",
                  IF outcome.raises THEN JStr(user_query)
                  ELSE Get(query_analysis, "reformulated_query", JStr(user_query)))
        s3 == Put(s2, "cosmos_query",
                  IF outcome.raises THEN JStr("")
                  ELSE Get(query_analysis, "cosmos_query", JStr("")))
    IN  Returned(Put(s3, "query_parameters",
                     IF outcome.raises THEN JList("[]")
                     ELSE Get(query_analysis, "query_parameters", JList("[]"))))

\* execute, from the completion's outcome on: the four state writes of either
\* branch; the except branch catches whatever the try raises
UnderstandExecute(st, outcome) ==
    LET user_query == Get(st, "user_query", "")
        query_analysis == IF outcome.raises
                          THEN ErrorAnalysis(user_query, outcome.err)
                          ELSE ParseQueryAnalysis(outcome.text, user_query)
        s1 == Put(st, "query_analysis", query_analysis)
        s2 == Put(s1, "reformulated_query",
                  IF outcome.raises THEN JStr(user_query)
                  ELSE Get(query_analysis, "reformulated_query", JStr(user_query)))
        s3 == Put(s2, "cosmos_query",
                  IF outcome.raises THEN JStr("")
                  ELSE Get(query_analysis, "cosmos_query", JStr("")))
    IN  Returned(Put(s3, "query_parameters",
                     IF outcome.raises THEN JList("[]")
                     ELSE Get(query_analysis, "query_parameters", JList("[]"))))

---------------------------------------------------------------------------
(* DataRetrievalAgent *)

\* the query text _query_financial_data sends
FixedCosmosQuery == "SELECT TOP 100 * FROM c ORDER BY c.timestamp DESC"

\* CosmosDBService.__init__ sets conversations_container, users_container and
\* gold_container only: reading financial_data_container raises AttributeError
\* on it, configured or not.  The mocked service answers every attribute.
HasFinancialDataContainer(cfg) == cfg = "mock"

\* _query_financial_data: [data |-> list returned, calls |-> store queries issued]
QueryFinancialData(query_analysis, cfg, store_outcome) ==
    IF ~HasFinancialDataContainer(cfg)
    THEN [data |-> <<>>, calls |-> <<>>]
    ELSE [data |-> IF store_outcome.raises THEN <<>> ELSE store_outcome.records,
          calls |-> <<[query |-> JStr(FixedCosmosQuery), parameters |-> JList("<none>")]>>]

\* execute: rag context (when the vector store is set), then the store query,
\* then the metadata; an exception skips the rest and is recorded under "error"
RetrievedData(query_analysis, cfg, rag, rag_outcome, store_outcome) ==
    LET initial == [financial_data |-> <<>>, rag_context |-> "",
                    rag_sources |-> <<>>, metadata |-> EmptyDict]
        with_rag == IF rag
                    THEN [initial EXCEPT !.rag_context = rag_outcome.context,
                                         !.rag_sources = rag_outcome.sources]
                    ELSE initial
        financial_data == QueryFinancialData(query_analysis, cfg, store_outcome).data
    IN  IF rag /\ rag_outcome.raises
        THEN Put(initial, "error", rag_outcome.err)
        ELSE [with_rag EXCEPT
                !.financial_data = financial_data,
                !.metadata = [rag_enabled |-> with_rag.rag_context # "",
                              financial_records_count |-> Len(financial_data),
                              sources_count |-> Len(with_rag.rag_sources)]]

\* the store queries one execute issues
RetrievalStoreCalls(query_analysis, cfg, rag, rag_outcome, store_outcome) ==
    IF rag /\ rag_outcome.raises
    THEN <<>>
    ELSE QueryFinancialData(query_analysis, cfg, store_outcome).calls

\* faulty variant: no outer except, the context retrieval's exception leaves execute
RetrievalExecute_NoOuterCatch(st, cfg, rag, rag_outcome, store_outcome) ==
    IF rag /\ rag_outcome.raises
    THEN Raised(rag_outcome.err, st)
    ELSE Returned(Put(st, "retrieved_data",
                      RetrievedData(Get(st, "query_analysis", EmptyDict), cfg, rag,
                                    rag_outcome, store_outcome)))

RetrievalExecute(st, cfg, rag, rag_outcome, store_outcome) ==
    Returned(Put(st, "retrieved_data",
                 RetrievedData(Get(st, "query_analysis", EmptyDict), cfg, rag,
                               rag_outcome, store_outcome)))

---------------------------------------------------------------------------
(* ResponseGenerationAgent *)

ResponseApology ==
    "I apologize, but I encountered an error while generating a response. Please try again."

\* number of example records _summarize_financial_data renders
SummaryExamples == 5

\* _summarize_financial_data
SummarizeFinancialData(data) ==
    [found |-> Len(data),
     examples |-> FirstN(data, SummaryExamples),
     more |-> IF Len(data) > SummaryExamples THEN Len(data) - SummaryExamples ELSE 0]

\* _build_response_context: the parts joined; <<>> is the empty string
BuildResponseContext(retrieved_data) ==
    (IF Get(retrieved_data, "rag_context", "") # ""
     THEN <<[part |-> "Relevant Context", body |-> retrieved_data.rag_context]>>
     ELSE <<>>)
    \o
    (IF Get(retrieved_data, "financial_data", <<>>) # <<>>
     THEN <<[part |-> "Financial Data",
             body |-> SummarizeFinancialData(retrieved_data.financial_data)]>>
     ELSE <<>>)

\* number of history messages execute forwards
HistoryWindow == 4

\* faulty variant: conversation_history is forwarded whole
ResponseMessages_WholeHistory(st) ==
    LET context == BuildResponseContext(Get(st, "retrieved_data", EmptyDict))
        history == Get(st, "conversation_history", <<>>)
    IN  (IF context # <<>>
         THEN <<[role |-> "system", kind |-> "data_context", body |-> context]>>
         ELSE <<>>)
        \o [n \in 1..Len(history) |->
              [role |-> Get(history[n], "role", "user"), kind |-> "history",
               body |-> Get(history[n], "content", "")]]
        \o <<[role |-> "user", kind |-> "question", body |-> Get(st, "user_query", "")]>>

\* the message list execute sends
ResponseMessages(st) ==
    LET context == BuildResponseContext(Get(st, "retrieved_data", EmptyDict))
        history == LastN(Get(st, "conversation_history", <<>>), HistoryWindow)
    IN  (IF context # <<>>
         THEN <<[role |-> "system", kind |-> "data_context", body |-> context]>>
         ELSE <<>>)
        \o [n \in 1..Len(history) |->
              [role |-> Get(history[n], "role", "user"), kind |-> "history",
               body |-> Get(history[n], "content", "")]]
        \o <<[role |-> "user", kind |-> "question", body |-> Get(st, "user_query", "")]>>

\* faulty variant: no except branch, the completion's exception leaves execute
ResponseExecute_NoCatch(st, outcome) ==
    IF outcome.raises
    THEN Raised(outcome.err, st)
    ELSE Returned(Put(Put(st, "response", outcome.text),
                      "response_metadata", [context_used |-> FALSE]))

\* execute, from the completion's outcome on
ResponseExecute(st, outcome) ==
    LET retrieved_data == Get(st, "retrieved_data", EmptyDict)
        context == BuildResponseContext(retrieved_data)
    IN  IF outcome.raises
        THEN Returned(Put(Put(st, "response", ResponseApology),
                          "response_metadata", [error |-> outcome.err]))
        ELSE Returned(Put(Put(st, "response", outcome.text),
                 "response_metadata",
                 [context_used |-> context # <<>>,
                  sources_count |-> Len(Get(retrieved_data, "rag_sources", <<>>)),
                  financial_records_used |-> Len(Get(retrieved_data, "financial_data", <<>>))]))

---------------------------------------------------------------------------
(* RecommendationAgent *)

LBr == Tok("[", "sym", "")
RBr == Tok("]", "sym", "")
NL == Tok("\n", "sym", "")
Mark == Tok("mark", "sym", "1. ")
Lit(s) == Tok("lit", "str", s)
Word(s) == Tok("text", "txt", s)

\* cap on the suggestions _parse_recommendations returns
MaxSuggestions == 5

\* a cleaned line must be longer than this to count as a suggestion
MinLineLength == 10

\* the characters of a token; a JSON string literal carries its quotes
Surface(tok, open_quote, close_quote) ==
    CASE tok.k = "lit" ->
            (IF open_quote THEN "\"" ELSE "") \o tok.v \o (IF close_quote THEN "\"" ELSE "")
      [] tok.k = "text" -> tok.v
      [] tok.k = "mark" -> tok.v
      [] OTHER -> tok.k

RECURSIVE Concat(_)
Concat(strs) == IF strs = <<>> THEN "" ELSE Head(strs) \o Concat(Tail(strs))

\* line.strip().lstrip('*-...123456789.').strip().strip('"\''): the leading
\* list marker goes, and a quote at either end of what is left
CleanLine(line) ==
    LET body == IF line # <<>> /\ Head(line).k = "mark" THEN Tail(line) ELSE line
    IN  Concat([n \in 1..Len(body) |-> Surface(body[n], n # 1, n # Len(body))])

\* response.split('\n') on tokens
RECURSIVE SplitLines(_)
SplitLines(text) ==
    IF \A n \in 1..Len(text) : text[n].k # "\n"
    THEN <<text>>
    ELSE LET cut == Min({n \in 1..Len(text) : text[n].k = "\n"})
         IN  <<SubSeq(text, 1, cut - 1)>> \o SplitLines(SubSeq(text, cut + 1, Len(text)))

\* the members of seq that satisfy keep, a sequence of booleans of the same length
SelectSeq2(seq, keep) ==
    LET kept == SelectSeq([n \in 1..Len(seq) |-> n], LAMBDA n : keep[n])
    IN  [g \in 1..Len(kept) |-> seq[kept[g]]]

\* re.search(r'\[.*\]', response, re.DOTALL): first "[" to last "]"
ArraySearch(text) ==
    LET opens == {n \in 1..Len(text) : text[n].k = "["}
        closes == {n \in 1..Len(text) : text[n].k = "]"}
    IN  IF opens = {} \/ closes = {} \/ \A c \in closes : c < Min(opens)
        THEN [found |-> FALSE, from |-> 0, to |-> 0]
        ELSE [found |-> TRUE, from |-> Min(opens),
              to |-> CHOOSE c \in closes : \A c2 \in closes : c2 <= c]

\* json.loads accepts m as an array of string literals (whitespace between them)
ArrayLoadsOk(m) ==
    /\ Len(m) >= 2
    /\ m[1].k = "[" /\ m[Len(m)].k = "]"
    /\ \A n \in 2..(Len(m) - 1) : m[n].k \in {"lit", "\n"}

\* the line-based parse of _parse_recommendations
ParseLines(text) ==
    LET cleaned == [n \in 1..Len(SplitLines(text)) |-> CleanLine(SplitLines(text)[n])]
        keep == [n \in 1..Len(cleaned) |-> Len(cleaned[n]) > MinLineLength]
    IN  FirstN(SelectSeq2(cleaned, keep), MaxSuggestions)

\* faulty variant: neither parse is capped
ParseRecommendations_Uncapped(response) ==
    LET found == ArraySearch(response)
        m == SubSeq(response, found.from, found.to)
        elems == SelectSeq2(m, [n \in 1..Len(m) |-> m[n].k = "lit" /\ m[n].v # ""])
        cleaned == [n \in 1..Len(SplitLines(response)) |-> CleanLine(SplitLines(response)[n])]
    IN  IF found.found /\ ArrayLoadsOk(m)
        THEN [n \in 1..Len(elems) |-> elems[n].v]
        ELSE SelectSeq2(cleaned, [n \in 1..Len(cleaned) |-> Len(cleaned[n]) > MinLineLength])

\* _parse_recommendations
ParseRecommendations(response) ==
    LET found == ArraySearch(response)
        m == SubSeq(response, found.from, found.to)
        elems == SelectSeq2(m, [n \in 1..Len(m) |-> m[n].k = "lit" /\ m[n].v # ""])
    IN  IF found.found /\ ArrayLoadsOk(m)
        THEN FirstN([n \in 1..Len(elems) |-> elems[n].v], MaxSuggestions)
        ELSE ParseLines(response)

FallbackMap ==
    [analytical |-> <<"What are the key trends in this data?",
                      "Can you break this down by category?",
                      "How does this compare to previous periods?">>,
     comparison |-> <<"What factors contributed to the differences?",
                      "Show me the top performers",
                      "What's the trend over time?">>,
     trend_analysis |-> <<"What caused these changes?",
                          "Project the trend for next quarter",
                          "Compare this trend with other metrics">>,
     general |-> <<"Show me a summary of recent data",
                   "What are the key insights?",
                   "How can I explore this further?">>]

\* a list or dict is unhashable: dict.get raises TypeError on it
Hashable(value) == value.t \notin {"list", "obj"}

\* _get_fallback_suggestions: [raises, err, value]
GetFallbackSuggestions(query_analysis) ==
    LET query_type == Get(query_analysis, "query_type", JStr("general"))
    IN  IF ~Hashable(query_type)
        THEN [raises |-> TRUE, err |-> "unhashable type: 'list'", value |-> <<>>]
        ELSE [raises |-> FALSE, err |-> "",
              value |-> IF query_type.t = "str" /\ query_type.v \in DOMAIN FallbackMap
                        THEN FallbackMap[query_type.v]
                        ELSE FallbackMap["general"]]

\* length of the answer prefix execute puts in the context
SummaryLimit == 500

\* response[:500] + "..." for a long answer, the answer itself otherwise
ResponseSummary(response) ==
    IF Len(response) > SummaryLimit
    THEN [of |-> response, chars |-> SummaryLimit, ellipsis |-> TRUE]
    ELSE [of |-> response, chars |-> Len(response), ellipsis |-> FALSE]

\* the message execute sends
RecommendMessages(st) ==
    <<[role |-> "user", kind |-> "recommend",
       body |-> [query |-> Get(st, "user_query", ""),
                 query_type |-> Get(Get(st, "query_analysis", EmptyDict),
                                    "query_type", JStr("general")),
                 response_summary |-> ResponseSummary(Get(st, "response", ""))]]>>

\* execute, from the completion's outcome on; the except branch calls
\* _get_fallback_suggestions outside any try
RecommendExecute(st, outcome) ==
    LET fallback == GetFallbackSuggestions(Get(st, "query_analysis", EmptyDict))
    IN  IF ~outcome.raises
        THEN Returned(Put(st, "suggestions", ParseRecommendations(outcome.text)))
        ELSE IF fallback.raises
        THEN Raised(fallback.err, st)
        ELSE Returned(Put(st, "suggestions", fallback.value))

---------------------------------------------------------------------------
(* AgentOrchestrator *)

\* set_entry_point
EntryPoint == "understand_query"

\* faulty variant: the edge out of understand_query bypasses retrieve_data
NextNode_SkipsRetrieval(node) ==
    CASE node = "understand_query" -> "generate_response"
      [] node = "retrieve_data" -> "generate_response"
      [] node = "generate_response" -> "generate_recommendations"
      [] node = "generate_recommendations" -> "END"

\* add_edge: the static successor of each node
NextNode(node) ==
    CASE node = "understand_query" -> "retrieve_data"
      [] node = "retrieve_data" -> "generate_response"
      [] node = "generate_response" -> "generate_recommendations"
      [] node = "generate_recommendations" -> "END"

Awaiting(node) == node \o ":await"

\* initial_state of process_query
InitialState(a) ==
    [user_query |-> a.user_query,
     user_id |-> a.user_id,
     conversation_id |-> a.conversation_id,
     conversation_history |-> a.conversation_history,
     query_analysis |-> EmptyDict,
     retrieved_data |-> EmptyDict,
     response |-> "",
     suggestions |-> <<>>]

\* faulty variant: the answer carries the conversation it was given in
AssembleResult_TagsConversation(final_state) ==
    [response |-> Get(final_state, "conversation_id", "") \o ": "
                    \o Get(final_state, "response", ""),
     suggestions |-> Get(final_state, "suggestions", <<>>),
     metadata |-> EmptyDict]

\* the result process_query assembles from the final state
AssembleResult(final_state) ==
    [response |-> Get(final_state, "response", ""),
     suggestions |-> Get(final_state, "suggestions", <<>>),
     metadata |->
        [query_analysis |-> Get(final_state, "query_analysis", EmptyDict),
         response_metadata |-> Get(final_state, "response_metadata", EmptyDict),
         sources |-> Get(Get(final_state, "retrieved_data", EmptyDict), "rag_sources", <<>>)]]

OrchestratorApology ==
    "I apologize, but I encountered an error processing your query. Please try again."

\* faulty variant: the except branch drops the error message
DegradedResult_DropsError(err) ==
    [response |-> OrchestratorApology,
     suggestions |-> <<>>,
     metadata |-> EmptyDict]

\* the result of the except branch of process_query
DegradedResult(err) ==
    [response |-> OrchestratorApology,
     suggestions |-> <<>>,
     metadata |-> [error |-> err]]

---------------------------------------------------------------------------
(* The environment: what the callers pass and what the external calls answer *)

UserQueries == {"What were total settlements on August 24, 2025?"}

\* the stored conversation chat.py passes: user and assistant turns alternate
HistoryMessage(n) ==
    [role |-> IF n % 2 = 1 THEN "user" ELSE "assistant",
     content |-> "turn " \o ToString(n)]

History(n) == [i \in 1..n |-> HistoryMessage(i)]

Histories == {History(0), History(2), History(MaxHistory)}

\* the real CosmosDBService, or the mocked service of the test fixtures
CosmosConfigs == {"service", "mock"}

NoOutcome == [kind |-> "none"]

GeneratedQueryText ==
    "SELECT VALUE SUM(c.transactionAmount) FROM c WHERE c.pkType=@pkType AND c.pkFilter=@pkFilter"
\* the parameter list is one token: its {"name", "value"} members sit two
\* brace levels deep, balanced and below RegexDepth, so they never change
\* which substring the pattern matches
ParametersText == "[@pkType=repay:settlement, @pkFilter=20250824]"
ReformulatedText == "Total settlement amount for Aug 24 2025"

QueryTypeValues == {JStr("aggregation"), JStr("comparison"), JList("[aggregation, filter]")}

\* an object nested to depth d: the entities value, with d - 1 levels of filters
RECURSIVE Nested(_)
Nested(d) ==
    IF d <= 1
    THEN <<LB, Tok("pkType", "str", "repay:settlement"), RB>>
    ELSE <<LB, Tok("filters", "obj", "filters")>> \o Nested(d - 1) \o <<RB>>

\* the JSON text of the analysis object a descriptor stands for
RenderObject(d) ==
    <<LB>>
    \o (IF d.missing # "intent" THEN <<Tok("intent", "str", "aggregate_amount")>> ELSE <<>>)
    \o (IF d.missing # "query_type"
        THEN <<Tok("query_type", d.qtype.t, d.qtype.v)>> ELSE <<>>)
    \o (IF d.missing # "entities"
        THEN <<Tok("entities", "obj", "entities")>> \o Nested(d.depth) ELSE <<>>)
    \o (IF d.missing # "cosmos_query" THEN <<Tok("cosmos_query", "str", d.query)>> ELSE <<>>)
    \o (IF d.params THEN <<Tok("query_parameters", "list", ParametersText)>> ELSE <<>>)
    \o (IF d.reform THEN <<Tok("reformulated_query", "str", ReformulatedText)>> ELSE <<>>)
    \o <<RB>>

\* the completion text of a descriptor: prose, the object (possibly damaged), prose
RenderCompletion(d) ==
    LET obj == RenderObject(d)
    IN  d.pre
        \o (CASE d.damage = "truncated" -> SubSeq(obj, 1, Len(obj) - 1)
              [] d.damage = "garbled" -> <<LB, Prose>> \o Tail(obj)
              [] OTHER -> obj)
        \o d.post

Descriptor(missing, qtype, depth, query, params, reform, pre, post, damage) ==
    [missing |-> missing, qtype |-> qtype, depth |-> depth, query |-> query,
     params |-> params, reform |-> reform, pre |-> pre, post |-> post, damage |-> damage]

ProseWithBraces == <<Prose, LB, Prose, RB, Prose>>

AnalysisDescriptors ==
    {Descriptor(m, qt, 2, q, TRUE, TRUE, <<>>, <<>>, "none") :
        m \in {"none"} \cup RequiredKeys, qt \in QueryTypeValues,
        q \in {GeneratedQueryText, ""}}
    \cup
    {Descriptor("none", JStr("aggregation"), dp, GeneratedQueryText, pa, rf, <<>>, <<>>, "none") :
        dp \in 1..MaxEntityDepth, pa \in BOOLEAN, rf \in BOOLEAN}
    \cup
    {Descriptor("none", JStr("aggregation"), 2, GeneratedQueryText, TRUE, TRUE, pre, post, dm) :
        pre \in {<<>>, <<Prose>>, ProseWithBraces}, post \in {<<>>, <<Prose>>},
        dm \in {"none", "truncated", "garbled"}}

\* what the completion call of the understanding node can answer
UnderstandOutcomes ==
    {[kind |-> "completion", raises |-> TRUE, err |-> "completion failed",
      text |-> <<>>, json |-> FALSE, desc |-> Descriptor("none", JStr(""), 0, "", FALSE, FALSE, <<>>, <<>>, "none")]}
    \cup
    {[kind |-> "completion", raises |-> FALSE, err |-> "",
      text |-> t, json |-> FALSE, desc |-> Descriptor("none", JStr(""), 0, "", FALSE, FALSE, <<>>, <<>>, "none")] :
        t \in {<<>>, <<Prose>>}}
    \cup
    {[kind |-> "completion", raises |-> FALSE, err |-> "",
      text |-> RenderCompletion(d), json |-> TRUE, desc |-> d] : d \in AnalysisDescriptors}

StoreRecord(n) == [id |-> "txn-" \o ToString(n), pkType |-> "repay:settlement",
                   pkFilter |-> "20250824", transactionAmount |-> 1250]

RagOutcomes(rag) ==
    IF ~rag THEN {[raises |-> FALSE, err |-> "", context |-> "", sources |-> <<>>, called |-> FALSE]}
    ELSE {[raises |-> TRUE, err |-> "vector store failed", context |-> "", sources |-> <<>>, called |-> TRUE],
          [raises |-> FALSE, err |-> "", context |-> "", sources |-> <<>>, called |-> TRUE],
          [raises |-> FALSE, err |-> "", context |-> "Settlement glossary",
           sources |-> <<[text |-> "Settlement glossary", score |-> 1]>>, called |-> TRUE]}

StoreOutcomes(cfg) ==
    IF ~HasFinancialDataContainer(cfg)
    THEN {[raises |-> FALSE, err |-> "", records |-> <<>>, called |-> FALSE]}
    ELSE {[raises |-> TRUE, err |-> "store unreachable", records |-> <<>>, called |-> TRUE],
          [raises |-> FALSE, err |-> "", records |-> <<>>, called |-> TRUE],
          [raises |-> FALSE, err |-> "", records |-> <<StoreRecord(1)>>, called |-> TRUE]}

ResponseOutcomes ==
    {[kind |-> "completion", raises |-> TRUE, err |-> "completion failed", text |-> ""],
     [kind |-> "completion", raises |-> FALSE, err |-> "", text |-> ""],
     [kind |-> "completion", raises |-> FALSE, err |-> "",
      text |-> "Total settlements on August 24, 2025 were 1250.50"]}

Suggestion(n) == "Follow-up question number " \o ToString(n)

\* ["...", "...", ...] with n string literals
ArrayText(n) == <<LBr>> \o [i \in 1..n |-> Lit(Suggestion(i))] \o <<RBr>>

RECURSIVE NumberedLines(_)
\* n numbered lines, one suggestion each
NumberedLines(n) ==
    IF n = 0 THEN <<>>
    ELSE NumberedLines(n - 1) \o (IF n > 1 THEN <<NL>> ELSE <<>>) \o <<Mark, Word(Suggestion(n))>>

RecommendTexts ==
    {ArrayText(n) : n \in 0..MaxItems}
    \cup {NumberedLines(n) : n \in 0..MaxItems}
    \cup {<<Word("Here are some ideas:"), NL>> \o ArrayText(3) \o <<NL, Word("Enjoy")>>,
          <<LBr, Lit(""), Lit(Suggestion(1)), Lit(""), RBr>>,
          ArrayText(1) \o <<Word(" or ")>> \o ArrayText(1),
          <<Mark, Word("Yes"), NL, Mark, Word("No")>>}

RecommendOutcomes ==
    {[kind |-> "completion", raises |-> TRUE, err |-> "completion failed", text |-> <<>>]}
    \cup {[kind |-> "completion", raises |-> FALSE, err |-> "", text |-> t] : t \in RecommendTexts}

---------------------------------------------------------------------------
(* The state machine: process_query and the nodes of the compiled workflow *)

Event(node, ev) == [node |-> node, ev |-> ev]

\* no seed_from_file frame
NoSeed == [container_name |-> "none"]

\* no bulk operation is in progress while the pipeline runs
BulkIdle ==
    /\ bpc = "idle"
    /\ bop = EmptyDict
    /\ tasks = <<>>
    /\ batch_calls = <<>>
    /\ bexc = ""
    /\ bresult = EmptyDict
    /\ seed = NoSeed

\* no chat request is in progress
SessionIdle ==
    /\ frames = <<>>
    /\ stored = EmptyDict
    /\ last_writer = EmptyDict

Init ==
    /\ pc = "call"
    /\ args \in {[user_query |-> q, user_id |-> "user-1", conversation_id |-> "conv-1",
                  conversation_history |-> h] : q \in UserQueries, h \in Histories}
    /\ state = EmptyDict
    /\ cosmos_cfg \in CosmosConfigs
    /\ rag_enabled \in BOOLEAN
    /\ last_outcome = NoOutcome
    /\ store_calls = <<>>
    /\ llm_calls = <<>>
    /\ trace = <<>>
    /\ exc = ""
    /\ result = EmptyDict
    /\ BulkIdle
    /\ SessionIdle

\* process_query up to workflow.ainvoke(initial_state)
ProcessQueryBegin ==
    /\ UNCHANGED <<bulkVars, sessionVars>>
    /\ pc = "call"
    /\ state' = InitialState(args)
    /\ pc' = EntryPoint
    /\ UNCHANGED <<args, cosmos_cfg, rag_enabled, last_outcome, store_calls,
                   llm_calls, trace, exc, result>>

\* a node's execute ends: the graph moves to the node's successor, or the
\* exception leaves workflow.ainvoke
NodeEnds(node, done) ==
    /\ state' = done.state
    /\ exc' = done.err
    /\ pc' = IF done.raises THEN "raised" ELSE NextNode(node)
    /\ trace' = Append(trace, Event(node, IF done.raises THEN "raise" ELSE "return"))

\* QueryUnderstandingAgent.execute up to the awaited completion call
UnderstandCall ==
    /\ UNCHANGED <<bulkVars, sessionVars>>
    /\ pc = "understand_query"
    /\ pc' = Awaiting("understand_query")
    /\ llm_calls' = Append(llm_calls, [node |-> "understand_query",
                                       messages |-> UnderstandMessages(state)])
    /\ trace' = Append(trace, Event("understand_query", "start"))
    /\ last_outcome' = NoOutcome
    /\ UNCHANGED <<args, state, cosmos_cfg, rag_enabled, store_calls, exc, result>>

\* ... and from the completion's answer to the end of execute
UnderstandReturn ==
    /\ UNCHANGED <<bulkVars, sessionVars>>
    /\ pc = Awaiting("understand_query")
    /\ \E outcome \in UnderstandOutcomes :
        /\ NodeEnds("understand_query", UnderstandExecute(state, outcome))
        /\ last_outcome' = outcome
    /\ UNCHANGED <<args, cosmos_cfg, rag_enabled, store_calls, llm_calls, result>>

\* DataRetrievalAgent.execute up to its first awaited call
RetrieveCall ==
    /\ UNCHANGED <<bulkVars, sessionVars>>
    /\ pc = "retrieve_data"
    /\ pc' = Awaiting("retrieve_data")
    /\ trace' = Append(trace, Event("retrieve_data", "start"))
    /\ last_outcome' = NoOutcome
    /\ UNCHANGED <<args, state, cosmos_cfg, rag_enabled, store_calls, llm_calls, exc, result>>

\* ... and the rest of it: the context retrieval, the store query, the state write
RetrieveReturn ==
    /\ UNCHANGED <<bulkVars, sessionVars>>
    /\ pc = Awaiting("retrieve_data")
    /\ \E rag_outcome \in RagOutcomes(rag_enabled), store_outcome \in StoreOutcomes(cosmos_cfg) :
        LET calls == RetrievalStoreCalls(Get(state, "query_analysis", EmptyDict), cosmos_cfg,
                                         rag_enabled, rag_outcome, store_outcome)
        IN  /\ NodeEnds("retrieve_data",
                        RetrievalExecute(state, cosmos_cfg, rag_enabled, rag_outcome, store_outcome))
            /\ store_calls' = store_calls \o calls
            /\ last_outcome' = [kind |-> "retrieval", rag |-> rag_outcome,
                                store |-> [store_outcome EXCEPT !.called = (calls # <<>>)]]
    /\ UNCHANGED <<args, cosmos_cfg, rag_enabled, llm_calls, result>>

\* ResponseGenerationAgent.execute up to the awaited completion call
RespondCall ==
    /\ UNCHANGED <<bulkVars, sessionVars>>
    /\ pc = "generate_response"
    /\ pc' = Awaiting("generate_response")
    /\ llm_calls' = Append(llm_calls, [node |-> "generate_response",
                                       messages |-> ResponseMessages(state)])
    /\ trace' = Append(trace, Event("generate_response", "start"))
    /\ last_outcome' = NoOutcome
    /\ UNCHANGED <<args, state, cosmos_cfg, rag_enabled, store_calls, exc, result>>

\* ... and from the completion's answer to the end of execute
RespondReturn ==
    /\ UNCHANGED <<bulkVars, sessionVars>>
    /\ pc = Awaiting("generate_response")
    /\ \E outcome \in ResponseOutcomes :
        /\ NodeEnds("generate_response", ResponseExecute(state, outcome))
        /\ last_outcome' = outcome
    /\ UNCHANGED <<args, cosmos_cfg, rag_enabled, store_calls, llm_calls, result>>

\* RecommendationAgent.execute up to the awaited completion call
RecommendCall ==
    /\ UNCHANGED <<bulkVars, sessionVars>>
    /\ pc = "generate_recommendations"
    /\ pc' = Awaiting("generate_recommendations")
    /\ llm_calls' = Append(llm_calls, [node |-> "generate_recommendations",
                                       messages |-> RecommendMessages(state)])
    /\ trace' = Append(trace, Event("generate_recommendations", "start"))
    /\ last_outcome' = NoOutcome
    /\ UNCHANGED <<args, state, cosmos_cfg, rag_enabled, store_calls, exc, result>>

\* ... and from the completion's answer to the end of execute
RecommendReturn ==
    /\ UNCHANGED <<bulkVars, sessionVars>>
    /\ pc = Awaiting("generate_recommendations")
    /\ \E outcome \in RecommendOutcomes :
        /\ NodeEnds("generate_recommendations", RecommendExecute(state, outcome))
        /\ last_outcome' = outcome
    /\ UNCHANGED <<args, cosmos_cfg, rag_enabled, store_calls, llm_calls, result>>

\* process_query after ainvoke returned: the result is assembled and returned
ProcessQueryReturn ==
    /\ UNCHANGED <<bulkVars, sessionVars>>
    /\ pc = "END"
    /\ result' = AssembleResult(state)
    /\ pc' = "done"
    /\ UNCHANGED <<args, state, cosmos_cfg, rag_enabled, last_outcome, store_calls,
                   llm_calls, trace, exc>>

\* process_query's except branch: the degraded result is returned
ProcessQueryExcept ==
    /\ UNCHANGED <<bulkVars, sessionVars>>
    /\ pc = "raised"
    /\ result' = DegradedResult(exc)
    /\ pc' = "done"
    /\ UNCHANGED <<args, state, cosmos_cfg, rag_enabled, last_outcome, store_calls,
                   llm_calls, trace, exc>>

Next ==
    \/ ProcessQueryBegin
    \/ UnderstandCall
    \/ UnderstandReturn
    \/ RetrieveCall
    \/ RetrieveReturn
    \/ RespondCall
    \/ RespondReturn
    \/ RecommendCall
    \/ RecommendReturn
    \/ ProcessQueryReturn
    \/ ProcessQueryExcept

Spec == Init /\ [][Next]_vars

---------------------------------------------------------------------------
(* CosmosBulkOperations, the CosmosDBService wrappers around it, and the   *)
(* deletion tool.  An item is a dict; a field holding None is modelled as  *)
(* an absent field (item.get gives None for both).  A partition-key value  *)
(* is tagged "tuple" (hierarchical), "list" or "str", its components a     *)
(* sequence.                                                               *)

MaxChunks == 2
MaxPartitions == 3

\* the store's ceiling on the operations of one batch call
MAX_BATCH_SIZE == 100

\* the container names _get_container knows
ValidContainers == {"conversations", "users", "gold"}

\* _get_container raises ValueError for any other name
GetContainerOk(container_name) == container_name \in ValidContainers

\* the partition_key_path the wrappers choose for a container
PartitionKeyPath(container_name) ==
    IF container_name = "gold" THEN "pkType,pkFilter" ELSE "partitionKey"

\* [f.strip() for f in partition_key_path.split(',')]
PkFields(partition_key_path) ==
    IF partition_key_path = "pkType,pkFilter"
    THEN <<"pkType", "pkFilter">>
    ELSE <<partition_key_path>>

\* ',' in partition_key_path
IsHierarchical(partition_key_path) == Len(PkFields(partition_key_path)) > 1

\* the key _group_by_partition_key files an item under; present = FALSE for an
\* item it skips with a warning
PartitionKeyOf(item, partition_key_path) ==
    LET pk_fields == PkFields(partition_key_path)
    IN  IF IsHierarchical(partition_key_path)
        THEN IF \A n \in 1..Len(pk_fields) : pk_fields[n] \in DOMAIN item
             THEN [present |-> TRUE, t |-> "tuple",
                   v |-> [n \in 1..Len(pk_fields) |-> item[pk_fields[n]]]]
             ELSE [present |-> FALSE, t |-> "none", v |-> <<>>]
        ELSE IF partition_key_path \in DOMAIN item
             THEN [present |-> TRUE, t |-> "str", v |-> <<item[partition_key_path]>>]
             ELSE IF "id" \in DOMAIN item
             THEN [present |-> TRUE, t |-> "str", v |-> <<item["id"]>>]
             ELSE [present |-> FALSE, t |-> "none", v |-> <<>>]

RECURSIVE SortedSeq(_)
\* the members of a set of numbers in ascending order
SortedSeq(S) == IF S = {} THEN <<>> ELSE <<Min(S)>> \o SortedSeq(S \ {Min(S)})

\* the members of seq at the positions where key agrees with pk, in order
Filed(seq, key, pk) == SelectSeq2(seq, [n \in 1..Len(seq) |-> key[n] = pk])

\* faulty variant: the groups are keyed by the first field of the path alone
GroupByPartitionKey_FirstFieldOnly(items, partition_key_path) ==
    LET key == [n \in 1..Len(items) |->
                  IF PartitionKeyOf(items[n], partition_key_path).present
                  THEN [present |-> TRUE, t |-> "tuple",
                        v |-> <<PartitionKeyOf(items[n], partition_key_path).v[1]>>]
                  ELSE [present |-> FALSE, t |-> "none", v |-> <<>>]]
        first == SortedSeq({n \in 1..Len(items) :
                              /\ key[n].present
                              /\ \A m \in 1..(n - 1) : key[m] # key[n]})
    IN  [g \in 1..Len(first) |->
            [pk |-> [t |-> key[first[g]].t, v |-> key[first[g]].v],
             items |-> Filed(items, key, key[first[g]])]]

\* _group_by_partition_key: the dict as a sequence of [pk, items] in insertion
\* order, each group holding its items in input order
GroupByPartitionKey(items, partition_key_path) ==
    LET key == [n \in 1..Len(items) |-> PartitionKeyOf(items[n], partition_key_path)]
        first == SortedSeq({n \in 1..Len(items) :
                              /\ key[n].present
                              /\ \A m \in 1..(n - 1) : key[m] # key[n]})
    IN  [g \in 1..Len(first) |->
            [pk |-> [t |-> key[first[g]].t, v |-> key[first[g]].v],
             items |-> Filed(items, key, key[first[g]])]]

\* bulk_delete_items: partitioned_deletes, the ids filed under each partition key
GroupDeletes(item_ids) ==
    LET key == [n \in 1..Len(item_ids) |-> item_ids[n].partition_key]
        first == SortedSeq({n \in 1..Len(item_ids) :
                              \A m \in 1..(n - 1) : key[m] # key[n]})
        ids == [n \in 1..Len(item_ids) |-> item_ids[n].item_id]
    IN  [g \in 1..Len(first) |->
            [pk |-> key[first[g]], items |-> Filed(ids, key, key[first[g]])]]

\* list(partition_key) if isinstance(partition_key, tuple) else partition_key
PkForBatch(partition_key) ==
    IF partition_key.t = "tuple" THEN [t |-> "list", v |-> partition_key.v] ELSE partition_key

\* items[i:i + MAX_BATCH_SIZE + 1]: faulty variant, one item too many
Chunk_OneTooMany(items, i) ==
    SubSeq(items, i + 1, IF i + MAX_BATCH_SIZE + 1 < Len(items)
                         THEN i + MAX_BATCH_SIZE + 1 ELSE Len(items))

\* items[i:i + MAX_BATCH_SIZE]
Chunk(items, i) ==
    SubSeq(items, i + 1, IF i + MAX_BATCH_SIZE < Len(items)
                         THEN i + MAX_BATCH_SIZE ELSE Len(items))

\* a partition task: its key, its slice of the input, the offset of its next
\* chunk, what it has collected, and whether one of its batch calls raised
Task(pk, batch_items, out) ==
    [pk |-> pk, batch_items |-> batch_items, i |-> 0, status |-> "ready",
     out |-> out, failed |-> FALSE]

\* bulk_create_items after the grouping: one partition -> the single-partition
\* insert over the list it was given; otherwise one task per group
CreateTasks(items, partition_key_path) ==
    LET partitioned_items == GroupByPartitionKey(items, partition_key_path)
    IN  IF Len(partitioned_items) = 1
        THEN <<Task(PkForBatch(partitioned_items[1].pk), items, <<>>)>>
        ELSE [g \in 1..Len(partitioned_items) |->
                Task(PkForBatch(partitioned_items[g].pk), partitioned_items[g].items, <<>>)]

\* bulk_upsert_items: one task per group, the group's key passed as it is
UpsertTasks(items, partition_key_path) ==
    LET partitioned_items == GroupByPartitionKey(items, partition_key_path)
    IN  [g \in 1..Len(partitioned_items) |->
            Task(partitioned_items[g].pk, partitioned_items[g].items, <<>>)]

\* bulk_delete_items: one task per partition key
DeleteTasks(item_ids) ==
    LET partitioned_deletes == GroupDeletes(item_ids)
    IN  [g \in 1..Len(partitioned_deletes) |->
            Task(partitioned_deletes[g].pk, partitioned_deletes[g].items, 0)]

\* faulty variant: every call of a task carries the task's whole list
NextBatch_WholeList(kind, task) == task.batch_items

\* the operations of the batch call a task issues next
NextBatch(kind, task) ==
    IF kind = "create" THEN Chunk(task.batch_items, task.i) ELSE task.batch_items

\* a reply of execute_item_batch: it raises, or gives one status per operation
StatusAt(reply, idx) ==
    CASE reply = "created" -> 201
      [] reply = "ok" -> 200
      [] reply = "conflict" -> 409
      [] reply = "mixed" -> (IF idx % 2 = 1 THEN 201 ELSE 409)
      [] reply = "deleted" -> 204
      [] reply = "not_found" -> 404
      [] reply = "mixed_delete" -> (IF idx % 2 = 1 THEN 204 ELSE 404)

ReplyRaises(reply) == reply = "raise"

\* the members of batch whose result has one of the statuses
WithStatus(batch, reply, statuses) ==
    SelectSeq2(batch, [n \in 1..Len(batch) |-> StatusAt(reply, n) \in statuses])

\* the statuses the operations count as a success
SuccessStatuses(kind) == IF kind = "delete" THEN {204} ELSE {200, 201}

\* a task after the reply to its batch call: the except branches log and go on
\* (create: to the next chunk), an upsert or delete task ends with [] or 0
TaskAfterReply(kind, task, reply) ==
    LET batch == NextBatch(kind, task)
        successful == IF ReplyRaises(reply) THEN <<>>
                      ELSE WithStatus(batch, reply, SuccessStatuses(kind))
        i == task.i + MAX_BATCH_SIZE
    IN  [task EXCEPT
            !.out = IF kind = "delete" THEN Len(successful) ELSE task.out \o successful,
            !.i = IF kind = "create" THEN i ELSE Len(task.batch_items),
            !.status = IF kind = "create" /\ i < Len(task.batch_items)
                       THEN "ready" ELSE "done",
            !.failed = task.failed \/ ReplyRaises(reply)]

\* the event loop runs the tasks in launch order, and a task that has started
\* runs to its end: execute_item_batch is a plain (blocking) call and the task
\* bodies hold no await that suspends
Runnable(ts, t) ==
    /\ ts[t].status = "ready"
    /\ \A u \in 1..(t - 1) : ts[u].status = "done"

\* faulty variant: the wait ends with the first task whose batch call failed
Settled_FirstFailure(ts) ==
    \/ \A t \in 1..Len(ts) : ts[t].status = "done"
    \/ \E t \in 1..Len(ts) : ts[t].status = "done" /\ ts[t].failed

\* asyncio.gather(*tasks, return_exceptions=True) resolves (and, for the single
\* partition, the awaited insert returns) when every task has ended
Settled(ts) == \A t \in 1..Len(ts) : ts[t].status = "done"

RECURSIVE Flatten(_)
Flatten(lists) == IF lists = <<>> THEN <<>> ELSE Head(lists) \o Flatten(Tail(lists))

RECURSIVE Sum(_)
Sum(numbers) == IF numbers = <<>> THEN 0 ELSE Head(numbers) + Sum(Tail(numbers))

\* faulty variant: the results after a failed partition are left out
Merge_StopsAtFailure(kind, ts) ==
    LET ok == {t \in 1..Len(ts) : \A u \in 1..t : ~ts[u].failed}
        outs == [t \in 1..Cardinality(ok) |-> ts[t].out]
    IN  IF kind = "delete" THEN Sum(outs) ELSE Flatten(outs)

\* the flattening of the gathered results: extend per list, sum of the ints
Merge(kind, ts) ==
    LET outs == [t \in 1..Len(ts) |-> ts[t].out]
    IN  IF kind = "delete" THEN Sum(outs) ELSE Flatten(outs)

\* faulty variant: the empty-list check is missing
Validate_NoEmptyCheck(op) ==
    IF ~GetContainerOk(op.container_name)
    THEN "ValueError: Invalid container name"
    ELSE IF op.kind = "delete" /\ \E n \in 1..Len(op.items) : op.items[n].partition_key.t = "list"
    THEN "TypeError: unhashable type: 'list'"
    ELSE ""

\* what stops an operation before it touches the store ("" = nothing):
\* _get_container, the empty-list check, and the dict key of the delete grouping
Validate(op) ==
    IF ~GetContainerOk(op.container_name)
    THEN "ValueError: Invalid container name"
    ELSE IF op.items = <<>>
    THEN (IF op.kind = "delete" THEN "ValueError: Item IDs list cannot be empty"
          ELSE "ValueError: Items list cannot be empty")
    ELSE IF op.kind = "delete" /\ \E n \in 1..Len(op.items) : op.items[n].partition_key.t = "list"
    THEN "TypeError: unhashable type: 'list'"
    ELSE ""

\* the partition tasks an operation sets up
LaunchTasks(op) ==
    CASE op.kind = "create" -> CreateTasks(op.items, PartitionKeyPath(op.container_name))
      [] op.kind = "upsert" -> UpsertTasks(op.items, PartitionKeyPath(op.container_name))
      [] op.kind = "delete" -> DeleteTasks(op.items)

---------------------------------------------------------------------------
(* DataDeleter.delete_by_partition_keys *)

ValidOperators == {">=", "<=", ">", "<", "==", "!="}

\* what stops the tool before its query: _get_container, the operator check
ValidateDeletion(op) ==
    IF ~GetContainerOk(op.container_name)
    THEN "ValueError: Invalid container name"
    ELSE IF op.pk_filter_criteria # "" /\ op.pk_filter_criteria \notin ValidOperators
    THEN "ValueError: Invalid operator"
    ELSE ""

\* the query the tool sends: the operator ('==' becomes '='), the parameters
\* and enable_cross_partition_query
DeletionQuery(op) ==
    [call |-> "query_items",
     operator |-> IF op.pk_filter_criteria \in {"", "=="} THEN "=" ELSE op.pk_filter_criteria,
     parameters |-> <<op.pk_type, op.pk_filter>>,
     enable_cross_partition_query |-> op.pk_filter_criteria # "",
     reply |-> "pending"]

\* c.pkFilter <operator> @pkFilter as the store evaluates it
Compare(value, operator, bound) ==
    CASE operator = "=" -> value = bound
      [] operator = "!=" -> value # bound
      [] operator = ">=" -> value >= bound
      [] operator = "<=" -> value <= bound
      [] operator = ">" -> value > bound
      [] operator = "<" -> value < bound

\* the items of the container the query selects
QueryMatches(content, query) ==
    SelectSeq2(content,
               [n \in 1..Len(content) |->
                   /\ content[n].pkType = query.parameters[1]
                   /\ Compare(content[n].pkFilter, query.operator, query.parameters[2])])

\* the summary the tool returns
Summary(deleted, failed, errors) == [deleted |-> deleted, failed |-> failed, errors |-> errors]

---------------------------------------------------------------------------
(* The callers of the bulk operations and the store's replies *)

ItemId(n) == "item-" \o ToString(n)

GoldItem(n, pk_filter) ==
    [id |-> ItemId(n), pkType |-> "repay:settlement", pkFilter |-> pk_filter]

\* items that lack one field of the hierarchical key
MissingFilter(n) == [id |-> ItemId(n), pkType |-> "repay:settlement"]
MissingType(n) == [id |-> ItemId(n), pkFilter |-> 20250824]

\* n items of the partition ("repay:settlement", 20250824)
SamePartition(n) == [i \in 1..n |-> GoldItem(i, 20250824)]

\* n items dealt in turn to k partitions
Spread(n, k) == [i \in 1..n |-> GoldItem(i, 20250824 + ((i - 1) % k))]

\* one partition of more than a batch, and one item of another
Lopsided ==
    SamePartition(MAX_BATCH_SIZE + 1) \o <<GoldItem(MAX_BATCH_SIZE + 2, 20250825)>>

\* items with an incomplete key put among the others
WithMissing(items) ==
    <<Head(items), MissingFilter(Len(items) + 1)>> \o Tail(items)
        \o <<MissingType(Len(items) + 2)>>

SingleSizes ==
    {1, 2} \cup {c * MAX_BATCH_SIZE : c \in 1..MaxChunks}
           \cup {(c - 1) * MAX_BATCH_SIZE + 1 : c \in 1..MaxChunks}

KeyedLists ==
    {SamePartition(n) : n \in SingleSizes}
    \cup {Spread(k, k) : k \in 2..MaxPartitions}
    \cup {Spread(k + 2, k) : k \in 2..MaxPartitions}
    \cup {Lopsided}

ItemLists ==
    KeyedLists
    \cup {WithMissing(SamePartition(2)), WithMissing(Spread(4, 2)),
          <<MissingFilter(1), MissingType(2)>>, <<>>}

\* items of a container with the single key path: the third is filed under its
\* id, the fourth has neither field
ConversationItems ==
    <<[id |-> "conv-1", partitionKey |-> "user-1"],
      [id |-> "conv-2", partitionKey |-> "user-2"],
      [id |-> "conv-3"],
      [title |-> "untitled"]>>

\* the (item_id, partition_key) pairs of a list of items, the key as a tuple
\* or as a list
PairsOf(items, t) ==
    [n \in 1..Len(items) |->
        [item_id |-> items[n].id,
         partition_key |-> [t |-> t, v |-> <<items[n].pkType, items[n].pkFilter>>]]]

BulkOps ==
    {[kind |-> k, container_name |-> "gold", items |-> l] :
        k \in {"create", "upsert"}, l \in ItemLists}
    \cup {[kind |-> "delete", container_name |-> "gold", items |-> PairsOf(l, "tuple")] :
            l \in KeyedLists \cup {<<>>}}
    \cup {[kind |-> "delete", container_name |-> "gold", items |-> PairsOf(Spread(2, 2), "list")]}
    \cup {[kind |-> k, container_name |-> "conversations", items |-> ConversationItems] :
            k \in {"create", "upsert"}}
    \cup {[kind |-> k, container_name |-> "archive", items |-> SamePartition(2)] :
            k \in {"create", "upsert"}}
    \cup {[kind |-> "delete", container_name |-> "archive",
           items |-> PairsOf(SamePartition(2), "tuple")]}

\* what execute_item_batch may answer
Replies(kind) ==
    IF kind = "delete"
    THEN {"deleted", "not_found", "mixed_delete", "raise"}
    ELSE {"created", "ok", "conflict", "mixed", "raise"}

\* the documents of the gold container the deletion tool runs against
GoldContent ==
    <<GoldItem(1, 20250823), GoldItem(2, 20250824), GoldItem(3, 20250824),
      GoldItem(4, 20250825),
      [id |-> ItemId(5), pkType |-> "cybersource:authorization", pkFilter |-> 20250824]>>

StoreContent(container_name) == IF container_name = "gold" THEN GoldContent ELSE <<>>

ToolOps ==
    {[kind |-> "delete_tool", container_name |-> c, pk_type |-> "repay:settlement",
      pk_filter |-> f, pk_filter_criteria |-> o, dry_run |-> d] :
        c \in {"gold", "users", "archive"}, f \in {20250824, 20250901},
        o \in {""} \cup ValidOperators \cup {"=>", "LIKE"}, d \in BOOLEAN}

---------------------------------------------------------------------------
(* DataSeeder.seed_from_file *)

\* no bulk operation has been called yet
NoOperation == [kind |-> "none"]

\* the partition key field seed_from_file works with: the hierarchical key is
\* taken for the gold container when the default was left
SeedKeyField(container_name, partition_key_field) ==
    IF container_name = "gold" /\ partition_key_field = "partitionKey"
    THEN "pkType,pkFilter"
    ELSE partition_key_field

\* str(uuid.uuid4()): a value no other item holds
Uuid(idx, field) == "uuid-" \o ToString(idx) \o "-" \o field

\* `field not in processed or not processed[field]`
Blank(item, field) == field \notin DOMAIN item \/ item[field] = ""

Accepted(item) == [raises |-> FALSE, err |-> "", item |-> item]
Rejected(err, item) == [raises |-> TRUE, err |-> err, item |-> item]

\* the texts int() takes, with their values
Numerals == {"1250", "75"}
IntOf(value) == CASE value = "1250" -> 1250 [] value = "75" -> 75

\* _convert_type for the texts of a file: int() raises ValueError for a text
\* that is no numeral, an unknown target type leaves the value as it is
ConvertType(value, target_type) ==
    IF target_type = "int"
    THEN IF value \in Numerals
         THEN [raises |-> FALSE, err |-> "", value |-> IntOf(value)]
         ELSE [raises |-> TRUE, value |-> value,
               err |-> "invalid literal for int() with base 10: '" \o value \o "'"]
    ELSE [raises |-> FALSE, err |-> "", value |-> value]

\* _process_item, the id field
ProcessId(item, idx, o) ==
    IF Blank(item, o.id_field)
    THEN IF o.auto_generate_id
         THEN Accepted(Put(item, o.id_field, Uuid(idx, o.id_field)))
         ELSE Rejected("Missing required field: " \o o.id_field, item)
    ELSE Accepted(item)

\* _process_item, the partition key: hierarchical or single
ProcessKey(processed, idx, o, partition_key_field) ==
    IF IsHierarchical(partition_key_field)
    THEN LET pk_fields == PkFields(partition_key_field)
             missing_fields == SelectSeq(pk_fields, LAMBDA f : f \notin DOMAIN processed)
             missing == {missing_fields[n] : n \in 1..Len(missing_fields)}
         IN  IF missing_fields = <<>>
             THEN Accepted(processed)
             ELSE IF o.partition_key_from_field # ""
                     /\ o.partition_key_from_field \in DOMAIN processed
             THEN Rejected("Missing required hierarchical partition key fields", processed)
             ELSE IF o.auto_generate_partition_key
             THEN Accepted([f \in (DOMAIN processed) \cup missing |->
                              IF f \in missing THEN Uuid(idx, f) ELSE processed[f]])
             ELSE Rejected("Missing required hierarchical partition key fields", processed)
    ELSE IF Blank(processed, partition_key_field)
         THEN IF o.partition_key_from_field # ""
                 /\ o.partition_key_from_field \in DOMAIN processed
              THEN Accepted(Put(processed, partition_key_field,
                                processed[o.partition_key_from_field]))
              ELSE IF o.auto_generate_partition_key
              THEN Accepted(Put(processed, partition_key_field,
                                Uuid(idx, partition_key_field)))
              ELSE Rejected("Missing required field: " \o partition_key_field, processed)
         ELSE Accepted(processed)

RECURSIVE ApplyTypes(_, _)
\* _process_item, the type conversions in the order of type_mapping
ApplyTypes(processed, type_mapping) ==
    IF type_mapping = <<>>
    THEN Accepted(processed)
    ELSE LET field_name == Head(type_mapping).field
             converted == ConvertType(processed[field_name], Head(type_mapping).type)
         IN  IF field_name \notin DOMAIN processed
             THEN ApplyTypes(processed, Tail(type_mapping))
             ELSE IF converted.raises
             THEN Rejected(converted.err, processed)
             ELSE ApplyTypes(Put(processed, field_name, converted.value),
                             Tail(type_mapping))

\* _process_item
ProcessItem(item, idx, o, partition_key_field) ==
    LET with_id == ProcessId(item, idx, o)
        with_key == ProcessKey(with_id.item, idx, o, partition_key_field)
    IN  IF with_id.raises THEN with_id
        ELSE IF with_key.raises THEN with_key
        ELSE ApplyTypes(with_key.item, o.type_mapping)

\* the loop of seed_from_file over the loaded items: what each item came to
Preprocess(s) ==
    [n \in 1..Len(s.items) |->
        ProcessItem(s.items[n], n - 1, s.options,
                    SeedKeyField(s.container_name, s.options.partition_key_field))]

\* processed_items after the loop
ProcessedItems(s) ==
    LET out == Preprocess(s)
        kept == SelectSeq([n \in 1..Len(out) |-> n], LAMBDA n : ~out[n].raises)
    IN  [g \in 1..Len(kept) |-> out[kept[g]].item]

\* errors after the loop
SeedErrors(s) ==
    LET out == Preprocess(s)
        bad == SelectSeq([n \in 1..Len(out) |-> n], LAMBDA n : out[n].raises)
    IN  [g \in 1..Len(bad) |->
            "Error processing item " \o ToString(bad[g] - 1) \o ": " \o out[bad[g]].err]

\* the summary seed_from_file returns
SeedSummary(success, failed, total, errors) ==
    [success |-> success, failed |-> failed, total |-> total, errors |-> errors]

\* ... after bulk_create_items returned created_items
SeedResult(created_items, s) ==
    SeedSummary(Len(created_items),
                Len(s.processed_items) - Len(created_items) + Len(s.errors),
                Len(s.items),
                s.errors)

\* the rows of a file: every value is text
Row(n, pk_filter) ==
    [id |-> ItemId(n), pkType |-> "repay:settlement", pkFilter |-> pk_filter,
     amount |-> "1250"]

RowNoFilter(n) == [id |-> ItemId(n), pkType |-> "repay:settlement", amount |-> "75"]

RowNoId(n) == [Row(n, "20250824") EXCEPT !.id = ""]

RowBadAmount(n) == [Row(n, "20250824") EXCEPT !.amount = "n/a"]

SeedFiles ==
    {<<>>,
     <<Row(1, "20250824"), Row(2, "20250825")>>,
     <<Row(1, "20250824"), RowNoFilter(2), RowBadAmount(3)>>,
     <<RowNoFilter(1), RowNoId(2)>>,
     <<RowNoId(1), Row(2, "20250824")>>,
     <<RowBadAmount(1)>>}

SeedOptions ==
    [partition_key_field : {"partitionKey"},
     id_field : {"id"},
     auto_generate_id : BOOLEAN,
     auto_generate_partition_key : BOOLEAN,
     partition_key_from_field : {"", "id"},
     type_mapping : {<<>>, <<[field |-> "amount", type |-> "int"]>>}]

SeedRuns ==
    [container_name : {"gold", "users"},
     items : SeedFiles,
     options : SeedOptions,
     processed_items : {<<>>},
     errors : {<<>>}]

---------------------------------------------------------------------------
(* The state machine of one bulk operation or one run of the deletion tool *)

\* the pipeline is not running
PipelineIdle ==
    /\ pc = "idle"
    /\ args = EmptyDict
    /\ state = EmptyDict
    /\ cosmos_cfg = "service"
    /\ rag_enabled = FALSE
    /\ last_outcome = NoOutcome
    /\ store_calls = <<>>
    /\ llm_calls = <<>>
    /\ trace = <<>>
    /\ exc = ""
    /\ result = EmptyDict

BulkInit ==
    /\ PipelineIdle
    /\ SessionIdle
    /\ \/ bpc = "call" /\ bop \in BulkOps /\ seed = NoSeed
       \/ bpc = "call" /\ bop \in ToolOps /\ seed = NoSeed
       \/ bpc = "seed:call" /\ bop = NoOperation /\ seed \in SeedRuns
    /\ tasks = <<>>
    /\ batch_calls = <<>>
    /\ bexc = ""
    /\ bresult = EmptyDict

\* bulk_create_items / bulk_upsert_items / bulk_delete_items up to the point
\* where the partition tasks exist: the checks, the grouping, the task list
BulkCall ==
    /\ bpc = "call"
    /\ bop.kind \in {"create", "upsert", "delete"}
    /\ IF Validate(bop) # ""
       THEN /\ bexc' = Validate(bop)
            /\ bpc' = "raised"
            /\ tasks' = tasks
       ELSE /\ tasks' = LaunchTasks(bop)
            /\ bpc' = "running"
            /\ bexc' = bexc
    /\ UNCHANGED <<bop, batch_calls, bresult, seed, pipelineVars, sessionVars>>

\* a task calls container.execute_item_batch with its next batch
BatchCallStart(t) ==
    /\ bpc = "running"
    /\ Runnable(tasks, t)
    /\ batch_calls' = Append(batch_calls,
                             [call |-> "execute_item_batch", op |-> bop.kind, task |-> t,
                              partition_key |-> tasks[t].pk,
                              operations |-> NextBatch(bop.kind, tasks[t]),
                              reply |-> "pending"])
    /\ tasks' = [tasks EXCEPT ![t].status = "calling"]
    /\ UNCHANGED <<bpc, bop, bexc, bresult, seed, pipelineVars, sessionVars>>

\* the call returns or raises, and the task goes on to its next call or ends
BatchCallEnd(t) ==
    /\ bpc = "running"
    /\ tasks[t].status = "calling"
    /\ \E reply \in Replies(bop.kind) :
        /\ tasks' = [tasks EXCEPT ![t] = TaskAfterReply(bop.kind, tasks[t], reply)]
        /\ batch_calls' = [batch_calls EXCEPT ![Len(batch_calls)].reply = reply]
    /\ UNCHANGED <<bpc, bop, bexc, bresult, seed, pipelineVars, sessionVars>>

\* the wait for the tasks ends and the operation returns the merged successes
BulkReturn ==
    /\ bpc = "running"
    /\ Settled(tasks)
    /\ bresult' = Merge(bop.kind, tasks)
    /\ bpc' = "done"
    /\ UNCHANGED <<bop, tasks, batch_calls, bexc, seed, pipelineVars, sessionVars>>

\* delete_by_partition_keys up to container.query_items
ToolCall ==
    /\ bpc = "call"
    /\ bop.kind = "delete_tool"
    /\ IF ValidateDeletion(bop) # ""
       THEN /\ bexc' = ValidateDeletion(bop)
            /\ bpc' = "raised"
            /\ batch_calls' = batch_calls
       ELSE /\ batch_calls' = Append(batch_calls, DeletionQuery(bop))
            /\ bpc' = "tool:query"
            /\ bexc' = bexc
    /\ UNCHANGED <<bop, tasks, bresult, seed, pipelineVars, sessionVars>>

\* the loop state of the delete loop over the items the query found
DeleteLoop(items) ==
    [items |-> items, next |-> 1, deleted |-> 0, failed |-> 0, errors |-> <<>>]

\* faulty variant: the dry-run check is missing, the delete loop runs
AfterQuery_IgnoresDryRun(op, reply, items) ==
    IF reply = "raise"
    THEN [pc |-> "done", loop |-> <<>>,
          result |-> Summary(0, 0, <<"Error querying or deleting items: query failed">>)]
    ELSE IF items = <<>>
    THEN [pc |-> "done", loop |-> <<>>, result |-> Summary(0, 0, <<>>)]
    ELSE [pc |-> "tool:delete", loop |-> <<DeleteLoop(items)>>, result |-> EmptyDict]

\* delete_by_partition_keys from the query's answer to the delete loop: the
\* outer except, the no-item return, the dry-run return
AfterQuery(op, reply, items) ==
    IF reply = "raise"
    THEN [pc |-> "done", loop |-> <<>>,
          result |-> Summary(0, 0, <<"Error querying or deleting items: query failed">>)]
    ELSE IF items = <<>>
    THEN [pc |-> "done", loop |-> <<>>, result |-> Summary(0, 0, <<>>)]
    ELSE IF op.dry_run
    THEN [pc |-> "done", loop |-> <<>>,
          result |-> [deleted |-> 0, failed |-> 0, errors |-> <<>>,
                      would_delete |-> Len(items)]]
    ELSE [pc |-> "tool:delete", loop |-> <<DeleteLoop(items)>>, result |-> EmptyDict]

\* faulty variant: the delete is addressed to the filter value of the command line
DeleteKey_FromArguments(op, item) == <<op.pk_type, op.pk_filter>>

\* partition_key=[pk_type, item_pk_filter]
DeleteKey(op, item) == <<op.pk_type, item.pkFilter>>

\* the query answers: an exception, no item, a dry run, or the delete loop starts
ToolQueryReturn ==
    /\ bpc = "tool:query"
    /\ \E reply \in {"items", "raise"} :
        LET items == QueryMatches(StoreContent(bop.container_name), batch_calls[1])
            after == AfterQuery(bop, reply, items)
        IN  /\ batch_calls' = [batch_calls EXCEPT ![1].reply = reply]
            /\ bresult' = after.result
            /\ bpc' = after.pc
            /\ tasks' = after.loop
    /\ UNCHANGED <<bop, bexc, seed, pipelineVars, sessionVars>>

\* one round of the delete loop: container.delete_item for the next item, its
\* exception counted and recorded; after the last item the summary is returned
ToolDeleteItem ==
    /\ bpc = "tool:delete"
    /\ \E reply \in {"deleted", "raise"} :
        LET loop == tasks[1]
            item == loop.items[loop.next]
            after == [loop EXCEPT
                        !.next = loop.next + 1,
                        !.deleted = loop.deleted + (IF reply = "raise" THEN 0 ELSE 1),
                        !.failed = loop.failed + (IF reply = "raise" THEN 1 ELSE 0),
                        !.errors = IF reply = "raise"
                                   THEN Append(loop.errors, "Failed to delete item " \o item.id)
                                   ELSE loop.errors]
        IN  /\ batch_calls' = Append(batch_calls,
                                     [call |-> "delete_item", item |-> item.id,
                                      partition_key |-> DeleteKey(bop, item),
                                      reply |-> reply])
            /\ tasks' = <<after>>
            /\ IF after.next > Len(after.items)
               THEN /\ bresult' = Summary(after.deleted, after.failed, after.errors)
                    /\ bpc' = "done"
               ELSE /\ bresult' = bresult
                    /\ bpc' = bpc
    /\ UNCHANGED <<bop, bexc, seed, pipelineVars, sessionVars>>

\* seed_from_file from the loaded items to the call of bulk_create_items: an
\* empty file returns the zero summary, otherwise every item is processed and
\* the accepted ones are handed over
SeedCall ==
    /\ bpc = "seed:call"
    /\ IF seed.items = <<>>
       THEN /\ bresult' = SeedSummary(0, 0, 0, <<>>)
            /\ bpc' = "seed:done"
            /\ UNCHANGED <<bop, seed>>
       ELSE /\ seed' = [seed EXCEPT !.processed_items = ProcessedItems(seed),
                                    !.errors = SeedErrors(seed)]
            /\ bop' = [kind |-> "create", container_name |-> seed.container_name,
                       items |-> ProcessedItems(seed)]
            /\ bpc' = "call"
            /\ bresult' = bresult
    /\ UNCHANGED <<tasks, batch_calls, bexc, pipelineVars, sessionVars>>

\* bulk_create_items returned: the summary is built and returned (an exception
\* of bulk_create_items is logged and raised again: the run stays "raised")
SeedReturn ==
    /\ bpc = "done"
    /\ seed # NoSeed
    /\ bresult' = SeedResult(bresult, seed)
    /\ bpc' = "seed:done"
    /\ UNCHANGED <<bop, tasks, batch_calls, bexc, seed, pipelineVars, sessionVars>>

BulkNext ==
    \/ BulkCall
    \/ \E t \in 1..Len(tasks) : BatchCallStart(t)
    \/ \E t \in 1..Len(tasks) : BatchCallEnd(t)
    \/ BulkReturn
    \/ ToolCall
    \/ ToolQueryReturn
    \/ ToolDeleteItem
    \/ SeedCall
    \/ SeedReturn

BulkSpec == BulkInit /\ [][BulkNext]_vars

---------------------------------------------------------------------------
(* The chat endpoint: requests that share the orchestrator and the store *)

\* number of messages get_recent_messages hands to send_message
RecentLimit == 10

\* Message(role=..., content=...)
ChatMessage(role, content) == [role |-> role, content |-> content]

\* the conversations the container holds before the requests arrive
SeededConversations ==
    [c \in {"conv-1", "conv-2"} |-> IF c = "conv-1" THEN History(2) ELSE History(0)]

\* Conversation(user_id=...).id: str(uuid4()), a value no other request draws
NewConversationId(i) == "new-" \o ToString(i)

FirstQuestion == "What were total settlements on August 24, 2025?"
SecondQuestion == "Which processor had the most chargebacks?"

ChatRequest(message, conversation_id) ==
    [message |-> message, conversation_id |-> conversation_id, user_id |-> "user-1"]

\* a request that has not started
NewFrame(request) ==
    [pc |-> "start",
     request |-> request,
     conversation |-> [id |-> "", messages |-> <<>>],
     args |-> [user_query |-> "", user_id |-> "", conversation_id |-> "",
               conversation_history |-> <<>>],
     state |-> EmptyDict,
     got |-> <<>>,
     result |-> EmptyDict,
     began_after |-> {},
     response |-> EmptyDict]

\* conversation.add_message
AddMessage(conversation, message) ==
    [conversation EXCEPT !.messages = Append(conversation.messages, message)]

\* history[:-1] of the recent messages, as role/content dicts
HistoryFor(conversation) ==
    LET recent == LastN(conversation.messages, RecentLimit)
    IN  SubSeq(recent, 1, Len(recent) - 1)

\* faulty variant: the update appends what the request added to what is stored
UpdateConversation_Merge(container, conversation) ==
    LET old == Get(container, conversation.id, <<>>)
    IN  Put(container, conversation.id,
            old \o LastN(conversation.messages, 2))

\* update_conversation: upsert_item(body=conversation.to_cosmos_dict()), the
\* stored document is replaced by the request's copy
UpdateConversation(container, conversation) ==
    Put(container, conversation.id, conversation.messages)

\* faulty variant: the nodes work on one state object kept by the orchestrator
NodeInput_Shared(fs, i) == fs[1].state

\* the state the workflow hands to a node: the invocation's own
NodeInput(fs, i) == fs[i].state

\* what the awaited calls of a node can answer in a chat session
SessionOutcomes(node) ==
    CASE node = "understand_query" ->
            {[llm |-> o] : o \in
                {u \in UnderstandOutcomes :
                    \/ u.raises
                    \/ /\ u.json
                       /\ u.desc \in {Descriptor("none", qt, 2, GeneratedQueryText, TRUE, TRUE,
                                                 <<>>, <<>>, "none") :
                                        qt \in {JStr("aggregation"), JList("[aggregation, filter]")}}}}
      [] node = "retrieve_data" ->
            {[rag |-> r, store |-> st] :
                r \in RagOutcomes(rag_enabled),
                st \in {so \in StoreOutcomes(cosmos_cfg) : ~so.raises}}
      [] node = "generate_response" ->
            {[llm |-> o] : o \in {r \in ResponseOutcomes : r.raises \/ r.text # ""}}
      [] node = "generate_recommendations" ->
            {[llm |-> o] : o \in
                {r \in RecommendOutcomes : r.raises \/ r.text = ArrayText(2)}}

\* a node's execute on a state, from the answer of the call it awaited
NodeDone(node, st, outcome) ==
    CASE node = "understand_query" -> UnderstandExecute(st, outcome.llm)
      [] node = "retrieve_data" ->
            RetrievalExecute(st, cosmos_cfg, rag_enabled, outcome.rag, outcome.store)
      [] node = "generate_response" -> ResponseExecute(st, outcome.llm)
      [] node = "generate_recommendations" -> RecommendExecute(st, outcome.llm)

\* send_message from the result of process_query on: the assistant message is
\* added to the request's conversation and the response is built
Answered(frame, returned) ==
    [frame EXCEPT
        !.pc = "done",
        !.result = returned,
        !.conversation = AddMessage(frame.conversation,
                                    ChatMessage("assistant", returned.response)),
        !.response = [message |-> ChatMessage("assistant", returned.response),
                      suggestions |-> returned.suggestions,
                      conversation_id |-> frame.conversation.id]]

\* a request resumed by the answer to the call it awaits: the node ends, and
\* either the next node starts its call or process_query returns
Resumed(frame, node, st, outcome) ==
    LET done == NodeDone(node, st, outcome)
        heard == [frame EXCEPT !.got = Append(frame.got, outcome)]
    IN  IF done.raises
        THEN Answered(heard, DegradedResult(done.err))
        ELSE IF NextNode(node) = "END"
        THEN Answered([heard EXCEPT !.state = done.state], AssembleResult(done.state))
        ELSE [heard EXCEPT !.state = done.state, !.pc = Awaiting(NextNode(node))]

SessionNodes ==
    {"understand_query", "retrieve_data", "generate_response", "generate_recommendations"}

SessionInit ==
    /\ pc = "idle"
    /\ args = EmptyDict
    /\ state = EmptyDict
    /\ cosmos_cfg \in CosmosConfigs
    /\ rag_enabled = FALSE
    /\ last_outcome = NoOutcome
    /\ store_calls = <<>>
    /\ llm_calls = <<>>
    /\ trace = <<>>
    /\ exc = ""
    /\ result = EmptyDict
    /\ BulkIdle
    /\ \E first \in {ChatRequest(FirstQuestion, c) : c \in {"conv-1", ""}},
          second \in {ChatRequest(SecondQuestion, c) : c \in {"conv-1", "conv-2", "conv-9"}}
                        \cup {ChatRequest(FirstQuestion, "")} :
          frames = <<NewFrame(first), NewFrame(second)>>
    /\ stored = SeededConversations
    /\ last_writer = EmptyDict

\* send_message up to the first awaited completion: the conversation is read
\* (404 when it is not there) or created, the user message is added, and
\* process_query starts the first node
ChatBegin(i) ==
    /\ frames[i].pc = "start"
    /\ LET request == frames[i].request
           found == request.conversation_id \in DOMAIN stored
           conversation ==
               AddMessage(IF request.conversation_id # ""
                          THEN [id |-> request.conversation_id,
                                messages |-> Get(stored, request.conversation_id, <<>>)]
                          ELSE [id |-> NewConversationId(i), messages |-> <<>>],
                          ChatMessage("user", request.message))
           a == [user_query |-> request.message,
                 user_id |-> request.user_id,
                 conversation_id |-> conversation.id,
                 conversation_history |-> HistoryFor(conversation)]
       IN  IF request.conversation_id # "" /\ ~found
           THEN /\ frames' = [frames EXCEPT
                                ![i].pc = "failed",
                                ![i].response = [status |-> 404,
                                                 detail |-> "Conversation not found"]]
                /\ stored' = stored
           ELSE /\ frames' = [frames EXCEPT
                                ![i].pc = Awaiting(EntryPoint),
                                ![i].conversation = conversation,
                                ![i].args = a,
                                ![i].state = InitialState(a),
                                ![i].began_after =
                                    {j \in 1..Len(frames) : frames[j].pc = "done"}]
                /\ stored' = IF request.conversation_id = ""
                             THEN Put(stored, NewConversationId(i), <<>>)
                             ELSE stored
    /\ UNCHANGED <<last_writer, pipelineVars, bulkVars>>

\* the call a request awaits answers; when that ends process_query, the
\* conversation is written back before the handler can be suspended again
ChatResume(i) ==
    /\ \E node \in SessionNodes :
        /\ frames[i].pc = Awaiting(node)
        /\ \E outcome \in SessionOutcomes(node) :
            LET after == Resumed(frames[i], node, NodeInput(frames, i), outcome)
            IN  /\ frames' = [frames EXCEPT ![i] = after]
                /\ IF after.pc = "done"
                   THEN /\ stored' = UpdateConversation(stored, after.conversation)
                        /\ last_writer' = Put(last_writer, after.conversation.id, i)
                   ELSE UNCHANGED <<stored, last_writer>>
    /\ UNCHANGED <<pipelineVars, bulkVars>>

SessionNext ==
    \/ \E i \in 1..Len(frames) : ChatBegin(i)
    \/ \E i \in 1..Len(frames) : ChatResume(i)

SessionSpec == SessionInit /\ [][SessionNext]_vars

---------------------------------------------------------------------------
(* Properties *)

NoNodeRaised == \A n \in 1..Len(trace) : trace[n].ev # "raise"

NodeNeverRaises(node) == \A n \in 1..Len(trace) : trace[n] # Event(node, "raise")

StageOrder ==
    <<Event("understand_query", "start"), Event("understand_query", "return"),
      Event("retrieve_data", "start"), Event("retrieve_data", "return"),
      Event("generate_response", "start"), Event("generate_response", "return"),
      Event("generate_recommendations", "start"), Event("generate_recommendations", "return")>>

\* the state right after a node's execute ended
AfterUnderstand == pc = "retrieve_data" /\ last_outcome.kind = "completion"
AfterRetrieve == pc = "generate_response" /\ last_outcome.kind = "retrieval"
AfterRespond == pc = "generate_recommendations" /\ last_outcome.kind = "completion"

\* C1: while no node has raised, the node events seen so far are a prefix of
\* Understand, Retrieve, Respond, Recommend (each started once, and only after
\* the one before it returned), and an invocation that ends with no node
\* having raised has seen exactly these eight events, whatever the nodes wrote.
C1_FixedStageOrder ==
    /\ \A n \in 1..Len(trace) :
          trace[n].ev # "raise" => (n <= Len(StageOrder) /\ trace[n] = StageOrder[n])
    /\ (pc = "done" /\ NoNodeRaised) => trace = StageOrder

\* C1 witness: a finished invocation whose understanding fell back to an empty
\* query, whose retrieval found nothing and whose answer completion failed
C1_Witness ==
    /\ pc = "done"
    /\ NoNodeRaised
    /\ state.cosmos_query = JStr("")
    /\ state.retrieved_data.financial_data = <<>>
    /\ state.response = ResponseApology

\* C2: when a node's execute raised, process_query returns the degraded
\* result: the apology text, no suggestions, and the error message as metadata.
C2_DegradedResultOnRaise ==
    (pc = "done" /\ ~NoNodeRaised) =>
        /\ result.response =
             "I apologize, but I encountered an error processing your query. Please try again."
        /\ result.suggestions = <<>>
        /\ exc # ""
        /\ result.metadata = [error |-> exc]

\* C2 witness: an invocation that ended after a node raised
C2_Witness == pc = "done" /\ ~NoNodeRaised /\ DOMAIN result = {"response", "suggestions", "metadata"}

\* C3: whatever the external calls answer, process_query ends by returning a
\* result with a response, at most 5 suggestions and a metadata record: every
\* state before the return has a next step, and none is a raise to the caller.
C3_AlwaysWellFormedResult ==
    /\ pc # "done" => ENABLED Next
    /\ pc \in {"call", "END", "raised", "done"} \cup
              {n : n \in {"understand_query", "retrieve_data", "generate_response",
                          "generate_recommendations"}} \cup
              {Awaiting(n) : n \in {"understand_query", "retrieve_data", "generate_response",
                                    "generate_recommendations"}}
    /\ pc = "done" =>
        /\ DOMAIN result = {"response", "suggestions", "metadata"}
        /\ Len(result.suggestions) <= 5
        /\ DOMAIN result.metadata \in {{"error"}, {"query_analysis", "response_metadata", "sources"}}

\* C3 witness: a returned result after the understanding completion raised, the
\* store query raised and the answer completion raised, with 5 suggestions
C3_Witness ==
    /\ pc = "done"
    /\ "error" \in DOMAIN state.query_analysis
    /\ store_calls # <<>> /\ state.retrieved_data.financial_data = <<>>
    /\ result.response = ResponseApology
    /\ Len(result.suggestions) = 5

\* the completion holds no parsable analysis object, or one lacking a required key
MalformedCompletion ==
    \/ ~last_outcome.json
    \/ last_outcome.desc.damage # "none"
    \/ last_outcome.desc.missing # "none"

\* C4: for a completion with no parsable JSON object or with a required key
\* missing, understanding returns with the fallback analysis (empty query, no
\* parameters, the question as reformulated query, a parse_error entry); when
\* the completion call raises it returns with an empty query, no parameters
\* and the question as reformulated query.  It never raises.
C4_UnderstandingFallback ==
    /\ NodeNeverRaises("understand_query")
    /\ (AfterUnderstand /\ (last_outcome.raises \/ MalformedCompletion)) =>
        /\ state.query_analysis.cosmos_query = JStr("")
        /\ state.query_analysis.query_parameters = JList("[]")
        /\ state.query_analysis.reformulated_query = JStr(args.user_query)
        /\ state.cosmos_query = JStr("")
        /\ state.query_parameters = JList("[]")
        /\ state.reformulated_query = JStr(args.user_query)
        /\ ~last_outcome.raises => "parse_error" \in DOMAIN state.query_analysis

\* C4 witness: understanding returned on an object that lacks cosmos_query
C4_Witness ==
    /\ AfterUnderstand
    /\ ~last_outcome.raises /\ last_outcome.json
    /\ last_outcome.desc.missing = "cosmos_query"
    /\ "parse_error" \in DOMAIN state.query_analysis

\* the completion is a well-formed analysis object with the four required keys
\* and a non-empty query, possibly with prose around it
WellFormedCompletion ==
    /\ ~last_outcome.raises
    /\ last_outcome.json
    /\ last_outcome.desc.damage = "none"
    /\ last_outcome.desc.missing = "none"
    /\ last_outcome.desc.query # ""

\* C5: for a completion that is a well-formed analysis object with the four
\* required keys (prose around it allowed), the fallback is not used, and the
\* analysis and the state carry the object's query and its parameters.
C5_WellFormedParses ==
    (AfterUnderstand /\ WellFormedCompletion) =>
        /\ "parse_error" \notin DOMAIN state.query_analysis
        /\ state.query_analysis.cosmos_query = JStr(last_outcome.desc.query)
        /\ state.cosmos_query = JStr(last_outcome.desc.query)
        /\ state.query_parameters =
             (IF last_outcome.desc.params THEN JList(ParametersText) ELSE JList("[]"))

\* C6: with an empty generated query, retrieval issues no store query, returns
\* no records and records query_executed = FALSE in its metadata.
C6_EmptyQuerySkipsStore ==
    (AfterRetrieve /\ state.cosmos_query = JStr("")) =>
        /\ store_calls = <<>>
        /\ state.retrieved_data.financial_data = <<>>
        /\ "query_executed" \in DOMAIN state.retrieved_data.metadata
        /\ state.retrieved_data.metadata.query_executed = FALSE

\* C7: with a non-empty generated query, retrieval issues exactly one store
\* query, whose text and parameters are the generated query and its parameters,
\* and the records in the state are the records that query returned.
C7_QueryPassedThrough ==
    (AfterRetrieve /\ state.cosmos_query # JStr("")) =>
        /\ Len(store_calls) = 1
        /\ store_calls[1].query = state.cosmos_query
        /\ store_calls[1].parameters = state.query_parameters
        /\ state.retrieved_data.financial_data = last_outcome.store.records

\* C8: retrieval never raises; when the store query raises, the service has no
\* usable container, or the context retrieval raises, it returns with
\* retrieved_data written and an empty record list, and the graph moves on to
\* response generation.
C8_RetrievalNeverRaises ==
    /\ NodeNeverRaises("retrieve_data")
    /\ (trace # <<>> /\ trace[Len(trace)] = Event("retrieve_data", "return")) =>
          pc = "generate_response"
    /\ (AfterRetrieve /\ (\/ (last_outcome.store.called /\ last_outcome.store.raises)
                          \/ ~HasFinancialDataContainer(cosmos_cfg)
                          \/ last_outcome.rag.raises)) =>
        /\ "retrieved_data" \in DOMAIN state
        /\ "financial_data" \in DOMAIN state.retrieved_data
        /\ state.retrieved_data.financial_data = <<>>

\* C8 witness: retrieval returned although the context retrieval raised
C8_Witness ==
    /\ AfterRetrieve
    /\ last_outcome.rag.raises
    /\ state.retrieved_data.financial_data = <<>>

\* C9: when the store query raises, retrieval's output holds an error entry
\* with the failure message next to the empty record list.
C9_StoreFailureReported ==
    (AfterRetrieve /\ last_outcome.store.called /\ last_outcome.store.raises) =>
        /\ state.retrieved_data.financial_data = <<>>
        /\ "error" \in DOMAIN state.retrieved_data
        /\ state.retrieved_data.error = last_outcome.store.err

\* C10: when the answer completion raises, response generation does not raise:
\* it writes the apology as response and the error message as response
\* metadata, and the graph moves on to the recommendation node.
C10_ResponseFailureContained ==
    /\ NodeNeverRaises("generate_response")
    /\ (trace # <<>> /\ trace[Len(trace)] = Event("generate_response", "return")) =>
          pc = "generate_recommendations"
    /\ (AfterRespond /\ last_outcome.raises) =>
        /\ state.response =
             "I apologize, but I encountered an error while generating a response. Please try again."
        /\ state.response_metadata = [error |-> last_outcome.err]

\* C10 witness: the recommendation node is next after the answer completion raised
C10_Witness ==
    /\ AfterRespond
    /\ last_outcome.raises
    /\ state.response = ResponseApology

\* the state right after the recommendation node's execute returned
AfterRecommend == pc = "END" /\ last_outcome.kind = "completion"

\* the static suggestion set the specification names for a query_type
StaticSuggestions(query_type) ==
    IF query_type.t = "str" /\ query_type.v \in {"analytical", "comparison", "trend_analysis"}
    THEN FallbackMap[query_type.v]
    ELSE FallbackMap["general"]

\* C11: when the recommendation completion returns a text from which neither
\* the JSON-array parse nor the line-based parse yields a suggestion, the
\* stage's suggestions are the static set for the analysis's query_type
\* (general for any other or missing query_type), hence non-empty.
C11_EmptyParseFallsBack ==
    (/\ AfterRecommend
     /\ ~last_outcome.raises
     /\ ParseRecommendations(last_outcome.text) = <<>>
     /\ ParseLines(last_outcome.text) = <<>>) =>
        /\ state.suggestions # <<>>
        /\ state.suggestions =
             StaticSuggestions(Get(state.query_analysis, "query_type", JStr("general")))

\* C12: whatever the completion answers (a text or an exception) and whatever
\* analysis the understanding stage wrote, the recommendation stage returns
\* without raising and leaves at most 5 suggestions, each a string.
C12_RecommendNeverRaises ==
    /\ NodeNeverRaises("generate_recommendations")
    /\ AfterRecommend =>
        /\ Len(state.suggestions) <= 5
        /\ \A n \in 1..Len(state.suggestions) : state.suggestions[n] \in STRING

\* the fields of the pipeline state a node owns
OwnedFields(node) ==
    CASE node = "understand_query" ->
            {"query_analysis", "reformulated_query", "cosmos_query", "query_parameters"}
      [] node = "retrieve_data" -> {"retrieved_data"}
      [] node = "generate_response" -> {"response", "response_metadata"}
      [] node = "generate_recommendations" -> {"suggestions"}

Nodes == {"understand_query", "retrieve_data", "generate_response", "generate_recommendations"}

\* C13: a step of a stage leaves every field of the pipeline state that the
\* stage does not own as it was (present before and after, with the same
\* value): the inputs and the fields written by the earlier stages; and the
\* part of a stage before its external call writes nothing.
C13_StageFrame ==
    [][/\ \A node \in Nodes :
            pc = Awaiting(node) =>
                \A k \in (DOMAIN state \cup DOMAIN state') \ OwnedFields(node) :
                    /\ k \in DOMAIN state
                    /\ k \in DOMAIN state'
                    /\ state'[k] = state[k]
       /\ pc \in Nodes => state' = state]_vars

\* C13 witness: all four stages returned, each having written its own fields
\* over a full conversation history
C13_Witness ==
    /\ AfterRecommend
    /\ Len(state.conversation_history) = MaxHistory
    /\ state.cosmos_query = JStr(GeneratedQueryText)
    /\ state.retrieved_data.financial_data # <<>>
    /\ "context_used" \in DOMAIN state.response_metadata
    /\ Len(state.suggestions) = 3

---------------------------------------------------------------------------
(* Properties of the bulk operations, checked under BulkSpec *)

\* the hierarchical key of an item that has both fields
ItemKey(item) == <<item.pkType, item.pkFilter>>

HasKey(item) == "pkType" \in DOMAIN item /\ "pkFilter" \in DOMAIN item

\* the keys of the items of the operation that have one
KeysOfItems == {ItemKey(bop.items[n]) : n \in {m \in 1..Len(bop.items) : HasKey(bop.items[m])}}

CeilDiv(n, d) == (n + d - 1) \div d

\* the operations of the answered calls for which the store reported one of
\* the statuses
ReportedSuccessful(statuses) ==
    UNION {{batch_calls[c].operations[j] :
                j \in {k \in 1..Len(batch_calls[c].operations) :
                          StatusAt(batch_calls[c].reply, k) \in statuses}} :
            c \in {d \in 1..Len(batch_calls) : batch_calls[d].reply \notin {"pending", "raise"}}}

\* the operations of the calls made against a partition key, in call order
OperationsFor(key) ==
    Flatten([c \in 1..Len(batch_calls) |->
                IF batch_calls[c].partition_key.v = key
                THEN batch_calls[c].operations ELSE <<>>])

\* C14: bulkCreate of N >= 1 items of one partition issues ceil(N/100) batch
\* calls, the c-th carrying items 100(c-1)+1 .. min(100c, N) of the input in
\* input order (so at most 100), every call against that one partition key;
\* this whatever the earlier chunks answered, a raise included.
C14_SinglePartitionChunks ==
    (/\ bop.kind = "create"
     /\ bop.container_name = "gold"
     /\ bop.items # <<>>
     /\ \A n \in 1..Len(bop.items) :
            HasKey(bop.items[n]) /\ ItemKey(bop.items[n]) = ItemKey(bop.items[1])) =>
        /\ bpc # "raised"
        /\ Len(batch_calls) <= CeilDiv(Len(bop.items), 100)
        /\ bpc = "done" => Len(batch_calls) = CeilDiv(Len(bop.items), 100)
        /\ \A c \in 1..Len(batch_calls) :
            /\ Len(batch_calls[c].operations) <= 100
            /\ batch_calls[c].operations =
                 SubSeq(bop.items, 100 * (c - 1) + 1,
                        IF 100 * c < Len(bop.items) THEN 100 * c ELSE Len(bop.items))
            /\ batch_calls[c].partition_key.v = ItemKey(bop.items[1])

\* C14 witness: 101 items of one partition, the first chunk's call raised and
\* the second chunk was still issued and created its item
C14_Witness ==
    /\ bpc = "done"
    /\ bop.kind = "create"
    /\ Len(bop.items) = 101
    /\ Cardinality(KeysOfItems) = 1
    /\ Len(batch_calls) = 2
    /\ batch_calls[1].reply = "raise"
    /\ batch_calls[2].reply = "created"
    /\ bresult = <<bop.items[101]>>

\* C15: bulkCreate of items spanning K >= 2 partition keys makes batch calls
\* for exactly K groups, one per distinct key, the calls of a key carrying
\* exactly the items with that key; and the list it returns holds exactly the
\* items for which a batch call reported status 200 or 201, whatever the calls
\* of the other partitions reported or raised.
C15_CrossPartitionGroups ==
    (/\ bop.kind = "create"
     /\ bop.container_name = "gold"
     /\ Cardinality(KeysOfItems) >= 2
     /\ bpc = "done") =>
        /\ Len(tasks) = Cardinality(KeysOfItems)
        /\ {batch_calls[c].partition_key.v : c \in 1..Len(batch_calls)} = KeysOfItems
        /\ \A key \in KeysOfItems :
              OperationsFor(key) =
                 SelectSeq(bop.items, LAMBDA item : HasKey(item) /\ ItemKey(item) = key)
        /\ {bresult[n] : n \in 1..Len(bresult)} = ReportedSuccessful({200, 201})
        /\ Len(bresult) = Cardinality(ReportedSuccessful({200, 201}))

\* C15 witness: three partitions; the call of the first raised, the second
\* reported a conflict, the third created its items, which are the result
C15_Witness ==
    /\ bpc = "done"
    /\ bop.kind = "create"
    /\ Cardinality(KeysOfItems) = 3
    /\ Len(batch_calls) = 3
    /\ batch_calls[1].reply = "raise"
    /\ batch_calls[2].reply = "conflict"
    /\ batch_calls[3].reply = "created"
    /\ bresult = batch_calls[3].operations

\* C16: in bulkCreate an item lacking a field of the hierarchical key is in no
\* batch call and in no returned success list, and the operation does not
\* raise: be the other items in one partition or in several.
C16_KeylessItemDropped ==
    (/\ bop.kind = "create"
     /\ bop.container_name = "gold"
     /\ bop.items # <<>>) =>
        /\ bpc # "raised"
        /\ \A n \in 1..Len(bop.items) :
            ~HasKey(bop.items[n]) =>
                /\ \A c \in 1..Len(batch_calls) :
                      \A j \in 1..Len(batch_calls[c].operations) :
                          batch_calls[c].operations[j] # bop.items[n]
                /\ bpc = "done" =>
                      \A j \in 1..Len(bresult) : bresult[j] # bop.items[n]

\* what the answered calls add up to: the successful operations in call order
\* (upsert), their number (delete); a call that raised adds nothing
ExpectedFromCalls ==
    LET per == [c \in 1..Len(batch_calls) |->
                  IF batch_calls[c].reply = "raise" THEN <<>>
                  ELSE SelectSeq2(batch_calls[c].operations,
                                  [j \in 1..Len(batch_calls[c].operations) |->
                                      StatusAt(batch_calls[c].reply, j) \in
                                         (IF bop.kind = "delete" THEN {204} ELSE {200, 201})])]
    IN  IF bop.kind = "delete" THEN Len(Flatten(per)) ELSE Flatten(per)

\* C17: in bulkUpsert and bulkDelete a raise of one partition's batch call
\* never reaches the caller; the operation returns, its result made of the
\* successes of every partition whose call answered, nothing for one that raised.
C17_PartitionFailureContained ==
    bop.kind \in {"upsert", "delete"} =>
        /\ batch_calls # <<>> => bpc # "raised"
        /\ bpc = "done" =>
            /\ Len(batch_calls) = Len(tasks)
            /\ bresult = ExpectedFromCalls

\* C17 witness: an upsert over three partitions whose first call raised and
\* whose other two succeeded
C17_Witness ==
    /\ bpc = "done"
    /\ bop.kind = "upsert"
    /\ Len(batch_calls) = 3
    /\ batch_calls[1].reply = "raise"
    /\ batch_calls[2].reply = "created"
    /\ batch_calls[3].reply = "ok"
    /\ bresult = batch_calls[2].operations \o batch_calls[3].operations

\* C18: a bulk operation has returned only when every partition task has
\* ended: each task was launched, made its calls and got their answers; and
\* while it has not returned, a next step exists whatever has failed so far.
C18_ReturnsAfterAllSettled ==
    bop.kind \in {"create", "upsert", "delete"} =>
        /\ bpc = "done" =>
            /\ \A t \in 1..Len(tasks) : tasks[t].status = "done"
            /\ {batch_calls[c].task : c \in 1..Len(batch_calls)} = 1..Len(tasks)
            /\ \A c \in 1..Len(batch_calls) : batch_calls[c].reply # "pending"
        /\ bpc = "running" => ENABLED BulkNext

\* C18 witness: three partition tasks, the first failed, the last did not, and
\* the operation has returned
C18_Witness ==
    /\ bpc = "done"
    /\ bop.kind \in {"create", "upsert", "delete"}
    /\ Len(tasks) = 3
    /\ tasks[1].failed
    /\ ~tasks[3].failed
    /\ tasks[3].status = "done"

\* the batch call of a partition task is in flight
InFlight(t) == tasks[t].status = "calling"

\* C19: the batch calls of the partitions of one operation run concurrently:
\* while the call of one partition is in flight, the call of another partition
\* that has not started yet can start.
C19_PartitionCallsOverlap ==
    (/\ bop.kind \in {"create", "upsert", "delete"}
     /\ bpc = "running"
     /\ \E t, u \in 1..Len(tasks) : t # u /\ InFlight(t) /\ tasks[u].status = "ready") =>
        \E t, u \in 1..Len(tasks) :
            /\ t # u
            /\ InFlight(t)
            /\ ENABLED BatchCallStart(u)

\* the input is structurally invalid
InvalidInput ==
    /\ bop.kind \in {"create", "upsert", "delete", "delete_tool"}
    /\ \/ bop.container_name \notin {"conversations", "users", "gold"}
       \/ bop.kind \in {"create", "upsert", "delete"} /\ bop.items = <<>>
       \/ bop.kind = "delete_tool"
            /\ bop.pk_filter_criteria \notin {"", ">=", "<=", ">", "<", "==", "!="}

\* C20: an empty list given to a bulk operation, an unsupported container
\* name, or an operator outside >=, <=, >, <, ==, != given to the deletion
\* tool ends in a ValueError raised to the caller, and no query, batch or
\* delete call has reached the store.
C20_InvalidInputFailsFast ==
    InvalidInput =>
        /\ batch_calls = <<>>
        /\ bpc \in {"call", "raised"}
        /\ bpc = "call" => ENABLED BulkNext
        /\ bpc = "raised" =>
              bexc \in {"ValueError: Invalid container name",
                        "ValueError: Items list cannot be empty",
                        "ValueError: Item IDs list cannot be empty",
                        "ValueError: Invalid operator"}

\* C20 witness: the deletion tool, called on the gold container with the
\* operator "=>", has raised
C20_Witness ==
    /\ bpc = "raised"
    /\ bop.kind = "delete_tool"
    /\ bop.container_name = "gold"
    /\ bop.pk_filter_criteria = "=>"
    /\ bexc = "ValueError: Invalid operator"

\* the items of the container that the tool's query selects
Matching == QueryMatches(StoreContent(bop.container_name), DeletionQuery(bop))

\* the delete calls the tool has made
DeleteCalls == SelectSeq(batch_calls, LAMBDA c : c.call = "delete_item")

\* C21: in dry-run mode the deletion tool makes no delete call, whatever the
\* query found (matches over several pkFilter partitions included), and once
\* the query has answered it reports would_delete = the number of matching
\* items (the report reads an absent would_delete as 0), deleted = 0, failed = 0.
C21_DryRunDeletesNothing ==
    (bop.kind = "delete_tool" /\ bop.dry_run) =>
        /\ DeleteCalls = <<>>
        /\ bpc # "tool:delete"
        /\ (bpc = "done" /\ batch_calls[1].reply = "items") =>
            /\ Get(bresult, "would_delete", 0) = Len(Matching)
            /\ bresult.deleted = 0
            /\ bresult.failed = 0

\* C21 witness: a dry run with ">=" whose matches lie in two pkFilter partitions
C21_Witness ==
    /\ bop.kind = "delete_tool"
    /\ bop.dry_run
    /\ bpc = "done"
    /\ bop.pk_filter_criteria = ">="
    /\ Cardinality({Matching[n].pkFilter : n \in 1..Len(Matching)}) = 2
    /\ bresult.would_delete = 3

\* C29: without dry run the deletion tool makes exactly one delete call per
\* matching item, in the order found, addressed to the item's own
\* (pkType, pkFilter); a delete that fails does not stop the others; and the
\* summary has deleted + failed = the number of matching items, one error
\* string per failed delete.
C29_OneDeletePerMatch ==
    (/\ bop.kind = "delete_tool"
     /\ ~bop.dry_run
     /\ Len(batch_calls) >= 1
     /\ batch_calls[1].reply = "items") =>
        /\ Len(DeleteCalls) <= Len(Matching)
        /\ \A n \in 1..Len(DeleteCalls) :
            /\ DeleteCalls[n].item = Matching[n].id
            /\ DeleteCalls[n].partition_key = <<Matching[n].pkType, Matching[n].pkFilter>>
        /\ bpc = "done" =>
            /\ Len(DeleteCalls) = Len(Matching)
            /\ bresult.deleted + bresult.failed = Len(Matching)
            /\ bresult.failed =
                 Cardinality({n \in 1..Len(DeleteCalls) : DeleteCalls[n].reply = "raise"})
            /\ Len(bresult.errors) = bresult.failed

\* C29 witness: three matches of ">=" in two partitions; the first delete
\* failed, the two after it went through
C29_Witness ==
    /\ bop.kind = "delete_tool"
    /\ bpc = "done"
    /\ bop.pk_filter_criteria = ">="
    /\ Len(DeleteCalls) = 3
    /\ DeleteCalls[1].reply = "raise"
    /\ DeleteCalls[3].partition_key[2] # bop.pk_filter
    /\ bresult = Summary(2, 1, <<"Failed to delete item item-2">>)

\* the execute_item_batch calls made so far
BatchCalls == SelectSeq(batch_calls, LAMBDA c : c.call = "execute_item_batch")

\* the partition keys the caller gave for an item id of a bulkDelete
KeysGivenFor(item_id) ==
    {bop.items[n].partition_key.v :
        n \in {m \in 1..Len(bop.items) : bop.items[m].item_id = item_id}}

\* the members of a task's slice of the input
SliceOf(t) == {tasks[t].batch_items[j] : j \in 1..Len(tasks[t].batch_items)}

\* C26: every batch call of a bulk operation holds only operations on items
\* whose own partition-key value is the partition key of the call, and the
\* slices of the input the partition tasks work on are pairwise disjoint.
C26_CallsStayInPartition ==
    (bop.kind \in {"create", "upsert", "delete"} /\ bop.container_name = "gold") =>
        /\ \A c \in 1..Len(BatchCalls) :
              \A j \in 1..Len(BatchCalls[c].operations) :
                  IF bop.kind = "delete"
                  THEN BatchCalls[c].partition_key.v \in KeysGivenFor(BatchCalls[c].operations[j])
                  ELSE /\ HasKey(BatchCalls[c].operations[j])
                       /\ ItemKey(BatchCalls[c].operations[j]) = BatchCalls[c].partition_key.v
        /\ \A t, u \in 1..Len(tasks) : t # u => SliceOf(t) \cap SliceOf(u) = {}

\* C27: every batch call of bulkUpsert and of bulkDelete carries at most 100
\* operations.
C27_UpsertDeleteCallsBounded ==
    \A c \in 1..Len(BatchCalls) :
        BatchCalls[c].op \in {"upsert", "delete"} =>
            Len(BatchCalls[c].operations) <= MAX_BATCH_SIZE

\* the input items of the operation, as a set
InputItems == {bop.items[n] : n \in 1..Len(bop.items)}

\* C28: the success list bulkCreate and bulkUpsert return holds input items
\* only, each at most once, and the count bulkDelete returns is at most the
\* number of (id, partition key) pairs it was asked to delete.
C28_SuccessesAreInputs ==
    (bpc = "done" /\ bop.kind \in {"create", "upsert", "delete"}) =>
        IF bop.kind = "delete"
        THEN bresult \in 0..Len(bop.items)
        ELSE /\ \A j \in 1..Len(bresult) : bresult[j] \in InputItems
             /\ \A j, k \in 1..Len(bresult) : j # k => bresult[j] # bresult[k]

\* C28 witness: a bulkCreate of 101 items of one partition whose two chunks
\* were both created returns the 101 input items
C28_Witness ==
    /\ bpc = "done"
    /\ bop.kind = "create"
    /\ Len(bop.items) = MAX_BATCH_SIZE + 1
    /\ Len(BatchCalls) = 2
    /\ \A c \in 1..2 : BatchCalls[c].reply = "created"
    /\ bresult = bop.items

---------------------------------------------------------------------------
(* Properties of the response prompt, checked under Spec *)

\* the messages of the completion call response generation made
SentForResponse ==
    (CHOOSE c \in {llm_calls[n] : n \in 1..Len(llm_calls)} :
        c.node = "generate_response").messages

\* C24: the messages response generation sends are, in this order: one
\* data-context message, present exactly when the built context is non-empty;
\* the last min(4, n) of the n history entries, in their original order; and
\* the current question as the final user message.
C24_ResponseMessageList ==
    (\E n \in 1..Len(llm_calls) : llm_calls[n].node = "generate_response") =>
        LET history == args.conversation_history
            n == Len(history)
            k == IF n < 4 THEN n ELSE 4
            has_context ==
                \/ Get(state.retrieved_data, "rag_context", "") # ""
                \/ Get(state.retrieved_data, "financial_data", <<>>) # <<>>
            lead == IF has_context THEN 1 ELSE 0
            sent == SentForResponse
        IN  /\ Len(sent) = lead + k + 1
            /\ \A m \in 1..Len(sent) : sent[m].kind = "data_context" <=> (has_context /\ m = 1)
            /\ has_context => sent[1].role = "system"
            /\ \A j \in 1..k :
                /\ sent[lead + j].role = history[n - k + j].role
                /\ sent[lead + j].body = history[n - k + j].content
            /\ sent[Len(sent)].role = "user"
            /\ sent[Len(sent)].body = args.user_query

\* C24 witness: a call with a data context and a history longer than the
\* window: six messages, the first forwarded turn being the second of five
C24_Witness ==
    /\ pc = Awaiting("generate_response")
    /\ Len(args.conversation_history) > 4
    /\ Len(SentForResponse) = 6
    /\ SentForResponse[1].kind = "data_context"
    /\ SentForResponse[2].body = args.conversation_history[Len(args.conversation_history) - 3].content

---------------------------------------------------------------------------
(* Properties of the seeder, checked under BulkSpec *)

\* the input items seed_from_file rejected while processing them
RejectedItems ==
    {n \in 1..Len(seed.items) : Preprocess(seed)[n].raises}

\* C30: for any non-empty input list seed_from_file returns a summary with
\* success + failed = total; every item rejected in preprocessing is counted
\* as failed with one error string and is never sent to the store; and the
\* rejected items do not make the call raise, whatever share of the input
\* they are.
C30_SeedAccountsForEveryItem ==
    (seed # NoSeed /\ seed.items # <<>>) =>
        /\ bpc # "raised"
        /\ \A c \in 1..Len(batch_calls) :
              \A j \in 1..Len(batch_calls[c].operations) :
                  \E n \in 1..Len(seed.items) :
                      /\ n \notin RejectedItems
                      /\ batch_calls[c].operations[j] = Preprocess(seed)[n].item
        /\ bpc = "seed:done" =>
            /\ bresult.total = Len(seed.items)
            /\ bresult.success + bresult.failed = bresult.total
            /\ bresult.failed >= Cardinality(RejectedItems)
            /\ Len(bresult.errors) = Cardinality(RejectedItems)

---------------------------------------------------------------------------
(* Properties of the chat sessions, checked under SessionSpec *)

RECURSIVE SoloRun(_, _, _)
\* the result of process_query run by itself from a state, given the answers
\* its awaited calls get
SoloRun(node, st, outcomes) ==
    IF node = "END" THEN AssembleResult(st)
    ELSE IF outcomes = <<>> THEN EmptyDict
    ELSE LET done == NodeDone(node, st, Head(outcomes))
         IN  IF done.raises THEN DegradedResult(done.err)
             ELSE SoloRun(NextNode(node), done.state, Tail(outcomes))

\* the history a request would pass if it were the only one
SoloHistory(request) ==
    IF request.conversation_id = "" THEN <<>>
    ELSE LastN(SeededConversations[request.conversation_id], RecentLimit - 1)

Started(i) == frames[i].pc \notin {"start", "failed"}

\* the two requests are for different conversations
DifferentConversations ==
    \/ frames[1].request.conversation_id # frames[2].request.conversation_id
    \/ frames[1].request.conversation_id = ""

\* both requests were in flight at once
Overlapped ==
    /\ Started(1) /\ Started(2)
    /\ 1 \notin frames[2].began_after
    /\ 2 \notin frames[1].began_after

\* C22: two invocations of the pipeline for different conversations that
\* interleave at their suspension points do not interfere: each works on its
\* own question, conversation and history, and returns the result it would
\* return alone given the same answers from the completion service and store.
C22_InvocationsDoNotInterfere ==
    (frames # <<>> /\ DifferentConversations) =>
        \A i \in 1..Len(frames) :
            Started(i) =>
                /\ Get(frames[i].state, "user_query", "") = frames[i].request.message
                /\ Get(frames[i].state, "conversation_id", "") = frames[i].conversation.id
                /\ Get(frames[i].state, "conversation_history", <<>>)
                      = SoloHistory(frames[i].request)
                /\ frames[i].pc = "done" =>
                      frames[i].result =
                          SoloRun(EntryPoint,
                                  InitialState([user_query |-> frames[i].request.message,
                                                user_id |-> frames[i].request.user_id,
                                                conversation_id |-> frames[i].conversation.id,
                                                conversation_history |->
                                                    SoloHistory(frames[i].request)]),
                                  frames[i].got)

\* C22 witness: two overlapping requests on conv-1 and conv-2 have both
\* returned, one with the completion's answer, the other with the apology
C22_Witness ==
    /\ frames # <<>>
    /\ frames[1].request.conversation_id = "conv-1"
    /\ frames[2].request.conversation_id = "conv-2"
    /\ Overlapped
    /\ frames[1].pc = "done" /\ frames[2].pc = "done"
    /\ frames[1].result.response = "Total settlements on August 24, 2025 were 1250.50"
    /\ frames[2].result.response = ResponseApology
    /\ frames[1].result.suggestions # frames[2].result.suggestions

\* the second request ran after the first had returned, both with the same
\* question and no history, and their awaited calls got the same answers
SuccessiveIdenticalRuns ==
    /\ frames # <<>>
    /\ frames[1].pc = "done" /\ frames[2].pc = "done"
    /\ 1 \in frames[2].began_after
    /\ frames[1].args.user_query = frames[2].args.user_query
    /\ frames[1].args.conversation_history = <<>>
    /\ frames[2].args.conversation_history = <<>>
    /\ frames[1].got = frames[2].got

C25_LastWriterWins ==
    \A c \in DOMAIN last_writer :
        LET w == last_writer[c]
        IN  /\ stored[c] = frames[w].conversation.messages
            /\ (Overlapped /\ frames[1].pc = "done" /\ frames[2].pc = "done"
                  /\ frames[1].conversation.id = frames[2].conversation.id) =>
                    stored[c] = SeededConversations[c]
                                  \o <<ChatMessage("user", frames[w].request.message),
                                       ChatMessage("assistant", frames[w].result.response)>>

\* C25 witness: both requests read conv-1 before either wrote it; the first
\* wrote, then the second, and the first one's question is no longer stored
C25_Witness ==
    /\ frames # <<>>
    /\ frames[1].request.conversation_id = "conv-1"
    /\ frames[2].request.conversation_id = "conv-1"
    /\ frames[1].request.message # frames[2].request.message
    /\ Overlapped
    /\ frames[1].pc = "done" /\ frames[2].pc = "done"
    /\ last_writer["conv-1"] = 2
    /\ Len(stored["conv-1"]) = Len(SeededConversations["conv-1"]) + 2
    /\ \A n \in 1..Len(stored["conv-1"]) :
          stored["conv-1"][n].content # frames[1].request.message

====
